---- MODULE Spec2Model ----
(***************************************************************************)
(* A model of mingo (MongoDB-style queries and aggregation pipelines over  *)
(* in-memory documents): the Query matcher, the Cursor, the Aggregator     *)
(* and its pipeline stages, and the expression evaluator.                  *)
(*                                                                         *)
(* Values are tagged records [k |-> type, v |-> payload]; k is the string  *)
(* that type(value) returns in the source.  A plain JS object (a document, *)
(* a criteria, a sort specification, a pipeline stage) is the sequence of  *)
(* its [key, val] entries in insertion order, the order Object.keys and    *)
(* for-in give.                                                            *)
(***************************************************************************)
EXTENDS Integers, Sequences, FiniteSets, TLC

-----------------------------------------------------------------------------
(* Values                                                                  *)

Num(n) == [k |-> "number", v |-> n]
Arr(s) == [k |-> "array", v |-> s]
Str(s) == [k |-> "string", v |-> s]
Bool(b) == [k |-> "boolean", v |-> b]
Obj(entries) == [k |-> "object", v |-> entries]
Undefined == [k |-> "undefined", v |-> 0]
Null == [k |-> "null", v |-> 0]

type(value) == value.k

isType(v, n) == type(v) = n
isBoolean(v) == isType(v, "boolean")
isString(v) == isType(v, "string")
isNumber(v) == isType(v, "number")
isArray(v) == isType(v, "array")
isObject(v) == isType(v, "object")
isNull(v) == isType(v, "null")
isUndefined(v) == isType(v, "undefined")
isUnknown(v) == isNull(v) \/ isUndefined(v)

\* the settings object: the name of the identity field
settings == [key |-> "_id"]

KV(key, val) == [key |-> key, val |-> val]

\* keys(o) = Object.keys(o) of a plain object
keys(o) == [i \in DOMAIN o.v |-> o.v[i].key]

\* has(obj, prop) on a plain object
has(obj, prop) == \E i \in DOMAIN obj.v : obj.v[i].key = prop

\* obj[field]: undefined when obj is a plain object without the key or is a
\* number; on null and undefined the property access throws a TypeError (see
\* getValueThrows)
getValue(obj, field) ==
  IF isObject(obj) /\ has(obj, field)
  THEN obj.v[CHOOSE i \in DOMAIN obj.v : obj.v[i].key = field].val
  ELSE Undefined

getValueThrows(obj) == isUnknown(obj)

\* obj[key] = value on a plain object: a new key goes last
SetKey(obj, key, value) ==
  IF has(obj, key)
  THEN Obj([i \in DOMAIN obj.v |-> IF obj.v[i].key = key THEN KV(key, value) ELSE obj.v[i]])
  ELSE Obj(Append(obj.v, KV(key, value)))

\* xs.filter(pred) for the predicate "keep[i]"
RECURSIVE FilterSeq(_, _)
FilterSeq(xs, keep) ==
  IF Len(xs) = 0 THEN <<>>
  ELSE (IF keep[1] THEN <<xs[1]>> ELSE <<>>) \o FilterSeq(Tail(xs), Tail(keep))

\* delete obj[key] on a plain object
DeleteKey(obj, key) == Obj(FilterSeq(obj.v, [i \in DOMAIN obj.v |-> obj.v[i].key # key]))

\* resolve(obj, selector) for a selector of one segment that is not an array
\* index, applied to a value that is not an array: the loop body runs once
\* through its else branch
resolve(obj, selector) == getValue(obj, selector)

\* coerceArray(x), as the sequence of the elements
coerceArray(x) == IF isArray(x) THEN x.v ELSE <<x>>

-----------------------------------------------------------------------------
(* hashcode: the string encode(value) = JSON.stringify({'': value}) +      *)
(* type(value) + String(value), as the sequence of its character codes,    *)
(* folded with hash = ((hash << 5) - hash + chr) | 0.  The values hashed   *)
(* in the model are numbers, booleans, null, undefined, and the arrays and  *)
(* objects built of them.                                                  *)

CharCode ==
  "0" :> 48 @@ "," :> 44 @@ "-" :> 45 @@ ":" :> 58 @@ "[" :> 91 @@ "]" :> 93 @@
  "{" :> 123 @@ "}" :> 125 @@ "\"" :> 34 @@ " " :> 32 @@ "$" :> 36 @@ "O" :> 79 @@
  "_" :> 95 @@
  "a" :> 97 @@ "b" :> 98 @@ "c" :> 99 @@ "d" :> 100 @@ "e" :> 101 @@ "f" :> 102 @@
  "g" :> 103 @@ "i" :> 105 @@ "j" :> 106 @@ "k" :> 107 @@ "l" :> 108 @@ "m" :> 109 @@
  "n" :> 110 @@ "o" :> 111 @@ "r" :> 114 @@ "s" :> 115 @@ "t" :> 116 @@ "u" :> 117 @@
  "x" :> 120 @@ "y" :> 121

Codes(chars) == [i \in DOMAIN chars |-> CharCode[chars[i]]]

\* the characters of the keys of the objects the model hashes
KeyChars ==
  "_id" :> <<"_", "i", "d">> @@ "a" :> <<"a">> @@ "b" :> <<"b">> @@ "c" :> <<"c">> @@
  "f" :> <<"f">> @@ "k" :> <<"k">> @@ "l" :> <<"l">> @@ "n" :> <<"n">> @@
  "tags" :> <<"t", "a", "g", "s">> @@ "count" :> <<"c", "o", "u", "n", "t">> @@
  "$x" :> <<"$", "x">> @@ "$y" :> <<"$", "y">>

RECURSIVE DecimalCodes(_)
DecimalCodes(n) ==
  IF n < 0 THEN <<CharCode["-"]>> \o DecimalCodes(0 - n)
  ELSE IF n < 10 THEN <<CharCode["0"] + n>>
  ELSE DecimalCodes(n \div 10) \o <<CharCode["0"] + (n % 10)>>

\* the strings of parts joined by commas
RECURSIVE JoinCodes(_)
JoinCodes(parts) ==
  IF Len(parts) = 0 THEN <<>>
  ELSE IF Len(parts) = 1 THEN parts[1]
  ELSE parts[1] \o <<CharCode[","]>> \o JoinCodes(Tail(parts))

\* JSON.stringify(value): the keys of an object in their own order, a key
\* whose value is undefined left out, an undefined element of an array
\* written null
RECURSIVE stringify(_)
stringify(value) ==
  LET member(entry) ==
        Codes(<<"\"">>) \o Codes(KeyChars[entry.key]) \o Codes(<<"\"", ":">>) \o stringify(entry.val)
      defined(entries) == FilterSeq(entries, [i \in DOMAIN entries |-> ~isUndefined(entries[i].val)])
      members(entries) == [i \in DOMAIN entries |-> member(entries[i])]
  IN  IF isNumber(value) THEN DecimalCodes(value.v)
      ELSE IF isBoolean(value)
      THEN (IF value.v THEN Codes(<<"t", "r", "u", "e">>) ELSE Codes(<<"f", "a", "l", "s", "e">>))
      ELSE IF isArray(value)
      THEN <<CharCode["["]>> \o JoinCodes([i \in DOMAIN value.v |-> stringify(value.v[i])])
             \o <<CharCode["]"]>>
      ELSE IF isObject(value)
      THEN <<CharCode["{"]>> \o JoinCodes(members(defined(value.v))) \o <<CharCode["}"]>>
      ELSE Codes(<<"n", "u", "l", "l">>)

\* String(value): an array is its elements joined by commas, null and
\* undefined elements empty; an object is [object Object]
RECURSIVE StringOf(_)
StringOf(value) ==
  IF isNumber(value) THEN DecimalCodes(value.v)
  ELSE IF isBoolean(value)
  THEN (IF value.v THEN Codes(<<"t", "r", "u", "e">>) ELSE Codes(<<"f", "a", "l", "s", "e">>))
  ELSE IF isArray(value)
  THEN JoinCodes([i \in DOMAIN value.v |->
                    IF isUnknown(value.v[i]) THEN <<>> ELSE StringOf(value.v[i])])
  ELSE IF isObject(value)
  THEN Codes(<<"[", "o", "b", "j", "e", "c", "t", " ", "O", "b", "j", "e", "c", "t", "]">>)
  ELSE IF isNull(value) THEN Codes(<<"n", "u", "l", "l">>)
  ELSE Codes(<<"u", "n", "d", "e", "f", "i", "n", "e", "d">>)

TypeCodes(value) ==
  IF isNumber(value) THEN Codes(<<"n", "u", "m", "b", "e", "r">>)
  ELSE IF isBoolean(value) THEN Codes(<<"b", "o", "o", "l", "e", "a", "n">>)
  ELSE IF isArray(value) THEN Codes(<<"a", "r", "r", "a", "y">>)
  ELSE IF isObject(value) THEN Codes(<<"o", "b", "j", "e", "c", "t">>)
  ELSE IF isNull(value) THEN Codes(<<"n", "u", "l", "l">>)
  ELSE Codes(<<"u", "n", "d", "e", "f", "i", "n", "e", "d">>)

\* JSON.stringify drops a key whose value is undefined: {'': undefined} is "{}"
encode(value) ==
  (IF isUndefined(value) THEN Codes(<<"{", "}">>)
   ELSE Codes(<<"{", "\"", "\"", ":">>) \o stringify(value) \o Codes(<<"}">>))
  \o TypeCodes(value) \o StringOf(value)

\* One step of the fold on a 32-bit hash kept as two 16-bit halves <<hi, lo>>:
\* (31 * hash + chr) modulo 2^32
HashStep(h, chr) ==
  <<(31 * h[1] + ((31 * h[2] + chr) \div 65536)) % 65536, (31 * h[2] + chr) % 65536>>

\* the loop of hashcode on st, the hash so far and the characters left
RECURSIVE HashFold(_)
HashFold(st) ==
  IF Len(st[2]) = 0 THEN st[1] ELSE HashFold(<<HashStep(st[1], Head(st[2])), Tail(st[2])>>)

\* the signed 32-bit integer that hash.toString() prints
hashcode(value) ==
  LET signed(h) == IF h[1] >= 32768 THEN (h[1] - 65536) * 65536 + h[2] ELSE h[1] * 65536 + h[2]
  IN  signed(HashFold(<<<<0, 0>>, encode(value)>>))

-----------------------------------------------------------------------------
(* Utilities                                                               *)

\* Array.prototype.slice(begin, end): a negative index counts from the end
RelativeIndex(len, i) == IF i < 0 THEN (IF len + i < 0 THEN 0 ELSE len + i)
                         ELSE (IF i > len THEN len ELSE i)

arraySlice(xs, begin, end) ==
  LET from == RelativeIndex(Len(xs), begin)
      to == RelativeIndex(Len(xs), end)
  IN  IF to <= from THEN <<>> ELSE SubSeq(xs, from + 1, to)

\* slice(xs, skip, limit) of an array xs with numbers for skip and for a
\* limit that is given: [err, val]
slice(xs, skip, limit) ==
  LET from == IF skip.v < 0
              THEN (IF Len(xs.v) + skip.v < 0 THEN 0 ELSE Len(xs.v) + skip.v)
              ELSE skip.v
  IN  IF isUnknown(limit)
      THEN (IF skip.v < 0
            THEN [err |-> FALSE, val |-> Arr(arraySlice(xs.v, from, Len(xs.v) - from + 1))]
            ELSE [err |-> FALSE, val |-> Arr(arraySlice(xs.v, 0, skip.v))])
      ELSE IF ~(limit.v > 0) THEN [err |-> TRUE, val |-> Undefined]
      ELSE [err |-> FALSE, val |-> Arr(arraySlice(xs.v, from, limit.v + from))]

\* array[i] with i from 0: undefined outside the array
elementAt(array, i) == IF isArray(array) /\ i >= 0 /\ i < Len(array.v) THEN array.v[i + 1] ELSE Undefined

\* array.length
lengthOf(array) == IF isArray(array) THEN Num(Len(array.v)) ELSE Undefined

\* Array.prototype.includes compares with SameValueZero: primitives by value,
\* arrays and objects by reference; two arrays or objects that reach it in the
\* model are never the same reference
SameValueZero(a, b) ==
  /\ type(a) = type(b)
  /\ type(a) \in {"number", "string", "boolean", "null", "undefined"}
  /\ a = b

inArray(arr, item) == \E i \in DOMAIN arr : SameValueZero(arr[i], item)
notInArray(arr, item) == ~inArray(arr, item)

intersection(xs, ys) == FilterSeq(xs, [i \in DOMAIN xs |-> inArray(ys, xs[i])])

\* isEqual(a, b): strict equality, else the same type and, for arrays, equal
\* elements in order, for objects, the same sorted keys with equal values
RECURSIVE isEqual(_, _)
isEqual(a, b) ==
  IF type(a) # type(b) THEN FALSE
  ELSE IF isArray(a) THEN
    /\ Len(a.v) = Len(b.v)
    /\ \A i \in DOMAIN a.v : isEqual(a.v[i], b.v[i])
  ELSE IF isObject(a) THEN
    /\ Len(a.v) = Len(b.v)
    /\ {a.v[i].key : i \in DOMAIN a.v} = {b.v[i].key : i \in DOMAIN b.v}
    /\ \A i \in DOMAIN a.v : isEqual(a.v[i].val, getValue(b, a.v[i].key))
  ELSE a = b

\* the relational operators of JavaScript on the model's values: a comparison
\* with undefined (NaN as a number) is false
JsLess(a, b) == isNumber(a) /\ isNumber(b) /\ a.v < b.v
JsLessEq(a, b) == isNumber(a) /\ isNumber(b) /\ a.v <= b.v

RECURSIVE Reverse(_)
Reverse(s) == IF Len(s) = 0 THEN <<>> ELSE Reverse(Tail(s)) \o <<Head(s)>>

RECURSIVE Flatten(_)
Flatten(ss) == IF Len(ss) = 0 THEN <<>> ELSE Head(ss) \o Flatten(Tail(ss))

-----------------------------------------------------------------------------
(* groupBy and sortBy                                                      *)

\* groupBy(collection, fn): keyOf[i] is fn(collection[i]).  st holds the loop
\* variable i and the result so far; lookup maps a hashcode to the index of
\* its group.
RECURSIVE groupByLoop(_, _, _)
\* the loop of groupBy as it would be if it never found a hash in lookup
groupByLoopNoLookup(collection, keyOf, st) ==
  LET put(key, hash, obj) ==
        [i |-> st.i + 1,
         keys |-> Append(st.keys, key),
         groups |-> Append(st.groups, <<obj>>),
         lookup |-> (hash :> Len(st.keys) + 1) @@ st.lookup]
  IN  IF st.i > Len(collection) THEN st
      ELSE groupByLoop(collection, keyOf,
                       put(keyOf[st.i], hashcode(keyOf[st.i]), collection[st.i]))

groupByLoop(collection, keyOf, st) ==
  LET put(key, hash, obj) ==
        IF hash \in DOMAIN st.lookup
        THEN [st EXCEPT !.i = @ + 1, !.groups[st.lookup[hash]] = Append(@, obj)]
        ELSE [i |-> st.i + 1,
              keys |-> Append(st.keys, key),
              groups |-> Append(st.groups, <<obj>>),
              lookup |-> (hash :> Len(st.keys) + 1) @@ st.lookup]
  IN  IF st.i > Len(collection) THEN st
      ELSE groupByLoop(collection, keyOf,
                       put(keyOf[st.i], hashcode(keyOf[st.i]), collection[st.i]))

groupBy(collection, keyOf) ==
  LET out(st) == [keys |-> st.keys, groups |-> st.groups]
  IN  out(groupByLoop(collection, keyOf,
                      [i |-> 1, keys |-> <<>>, groups |-> <<>>, lookup |-> <<>>]))

\* sortKeys of sortBy: hashcode(val) -> <<key, i>> of the first val with that
\* hash; st holds the loop variable i and sortKeys so far
RECURSIVE sortKeysLoop(_, _, _)
sortKeysLoop(collection, keyOf, st) ==
  LET put(hash) ==
        [i |-> st.i + 1,
         sortKeys |-> IF hash \in DOMAIN st.sortKeys THEN st.sortKeys
                      ELSE (hash :> <<keyOf[st.i], st.i>>) @@ st.sortKeys]
  IN  IF st.i > Len(collection) THEN st.sortKeys
      ELSE sortKeysLoop(collection, keyOf, put(hashcode(collection[st.i])))

\* the comparator that sortBy hands to Array.prototype.sort: negative when a
\* goes first
sortByCompare(sortKeys, a, b) ==
  LET compare(A, B) ==
        IF JsLess(A[1], B[1]) THEN -1
        ELSE IF JsLess(B[1], A[1]) THEN 1
        ELSE IF A[2] < B[2] THEN -1
        ELSE IF A[2] > B[2] THEN 1
        ELSE 0
  IN  compare(sortKeys[hashcode(a)], sortKeys[hashcode(b)])

\* Array.prototype.sort(comparefn) on the elements that are not undefined, as
\* a stable insertion sort
RECURSIVE InsertSorted(_, _, _)
InsertSorted(sortKeys, sorted, item) ==
  IF Len(sorted) = 0 THEN <<item>>
  ELSE IF sortByCompare(sortKeys, sorted[Len(sorted)], item) <= 0 THEN Append(sorted, item)
  ELSE Append(InsertSorted(sortKeys, SubSeq(sorted, 1, Len(sorted) - 1), item),
              sorted[Len(sorted)])

\* st holds the elements still to insert and those inserted
RECURSIVE InsertionSort(_, _)
InsertionSort(sortKeys, st) ==
  IF Len(st.todo) = 0 THEN st.sorted
  ELSE InsertionSort(sortKeys, [todo |-> Tail(st.todo),
                                sorted |-> InsertSorted(sortKeys, st.sorted, Head(st.todo))])

\* Array.prototype.sort: the undefined elements go to the end without a call
\* of comparefn, the others are ordered by it
nativeSort(sortKeys, xs) ==
  InsertionSort(sortKeys, [todo |-> FilterSeq(xs, [i \in DOMAIN xs |-> ~isUndefined(xs[i])]),
                            sorted |-> <<>>])
  \o FilterSeq(xs, [i \in DOMAIN xs |-> isUndefined(xs[i])])

\* sortBy(collection, fn): keyOf[i] is fn(collection[i], i)
sortBy(collection, keyOf) ==
  nativeSort(sortKeysLoop(collection, keyOf, [i |-> 1, sortKeys |-> <<>>]), collection)

-----------------------------------------------------------------------------
(* The operator tables                                                     *)

OP_QUERY == "query"
OP_GROUP == "group"
OP_AGGREGATE == "aggregate"
OP_PIPELINE == "pipeline"
OP_PROJECTION == "projection"

\* the keys of the tables of OPERATORS
OPERATORS ==
  [query |-> {"$and", "$or", "$nor", "$not", "$where", "$eq", "$ne", "$in", "$nin",
              "$lt", "$lte", "$gt", "$gte", "$mod", "$regex", "$exists", "$all",
              "$size", "$elemMatch", "$type"},
   group |-> {"$addToSet", "$sum", "$max", "$min", "$avg", "$push", "$first",
              "$last", "$stdDevPop", "$stdDevSamp"},
   aggregate |-> {"$abs", "$add", "$ceil", "$divide", "$exp", "$floor",
                 "$ln", "$log", "$log10", "$mod", "$multiply", "$pow",
                 "$sqrt", "$subtract", "$trunc", "$concat", "$indexOfBytes",
                 "$split", "$strcasecmp", "$substr", "$toLower", "$toUpper",
                 "$dayOfYear", "$dayOfMonth", "$dayOfWeek", "$year",
                 "$month", "$week", "$hour", "$minute", "$second",
                 "$millisecond", "$dateToString", "$setEquals",
                 "$setIntersection", "$setDifference", "$setUnion",
                 "$setIsSubset", "$anyElementTrue", "$allElementsTrue",
                 "$cond", "$switch", "$ifNull", "$cmp", "$eq", "$ne", "$gt",
                 "$gte", "$lt", "$lte", "$in", "$nin", "$arrayElemAt",
                 "$concatArrays", "$filter", "$indexOfArray", "$isArray",
                 "$range", "$reverseArray", "$reduce", "$size", "$slice",
                 "$zip", "$literal", "$map", "$let", "$and", "$or", "$not"},
   pipeline |-> {"$addFields", "$group", "$match", "$project", "$limit", "$skip",
                 "$unwind", "$sort", "$sortByCount", "$sample", "$count",
                 "$replaceRoot", "$redact"},
   projection |-> {"$", "$elemMatch", "$slice", "$stdDevPop", "$stdDevSamp"}]

ops(t) == OPERATORS[t]

\* truthiness of a value: !!x
truthy(x) ==
  CASE isBoolean(x) -> x.v
    [] isNumber(x) -> x.v # 0
    [] isString(x) -> x.v # ""
    [] isUnknown(x) -> FALSE
    [] OTHER -> TRUE
falsey(x) == ~truthy(x)

isEmpty(x) ==
  \/ isUnknown(x)
  \/ isArray(x) /\ Len(x.v) = 0
  \/ isObject(x) /\ Len(x.v) = 0
  \/ falsey(x)

\* objects and arrays (the model has no functions)
isObjectLike(v) == isObject(v) \/ isArray(v)
isSimpleType(value) == ~isObjectLike(value)

-----------------------------------------------------------------------------
(* Query                                                                   *)

\* normalize(expr); the model has no regular expressions.  The keys of an
\* array are its indices, none of them a query operator.
normalize(expr) ==
  IF isSimpleType(expr) THEN Obj(<<KV("$eq", expr)>>)
  ELSE IF isArray(expr) \/ \A i \in DOMAIN expr.v : expr.v[i].key \notin ops(OP_QUERY)
       THEN Obj(<<KV("$eq", expr)>>)
  ELSE expr

\* simpleOperators[op](a, b): a is the value resolved from the object, b the
\* operand of the criteria.  The model's criteria use the operators listed.
simpleOperators(op, a, b) ==
  LET apply(as, eq, in) ==
        CASE op = "$eq" -> eq
          [] op = "$ne" -> ~eq
          [] op = "$in" -> in
          [] op = "$nin" -> isUndefined(a) \/ ~in
          [] op = "$lt" -> \E i \in DOMAIN as : JsLess(as[i], b)
          [] op = "$lte" -> \E i \in DOMAIN as : JsLessEq(as[i], b)
          [] op = "$gt" -> \E i \in DOMAIN as : JsLess(b, as[i])
          [] op = "$gte" -> \E i \in DOMAIN as : JsLessEq(b, as[i])
          [] op = "$exists" -> \/ (b = Bool(FALSE) /\ isUndefined(a))
                               \/ (b = Bool(TRUE) /\ ~isUndefined(a))
          [] op = "$size" -> isArray(a) /\ isNumber(b) /\ Len(a.v) = b.v
          [] OTHER -> FALSE
  IN  apply(coerceArray(a),
            isEqual(a, b) \/ (isArray(a) /\ \E i \in DOMAIN a.v : isEqual(b, a.v[i])),
            Len(intersection(coerceArray(a), b.v)) > 0)

compoundNames == {"$and", "$or", "$nor"}

\* new Query(criteria): [err, compiled]; err when the constructor throws.
\* compiled is the list _compiled of predicate handles: [op, selector, value]
\* for a simple operator, with the nested queries of $and, $or and $nor.
RECURSIVE Query(_), processOperators(_, _, _, _), compileEntries(_, _, _)

\* queryOperators[operator](selector, value) for each nested criteria of
\* $and, $or, $nor
nestedQueries(value) == [i \in DOMAIN value.v |-> Query(value.v[i])]

\* the loop "for (let op in expr) this._processOperator(field, op, expr[op])"
\* from entry i on; st is [err, compiled]
processOperators(field, expr, i, st) ==
  LET failed == [err |-> TRUE, compiled |-> <<>>]
      added(operator, value, queries) ==
        IF \E j \in DOMAIN queries : queries[j].err THEN failed
        ELSE processOperators(field, expr, i + 1,
               [err |-> FALSE,
                compiled |-> Append(st.compiled,
                  [op |-> operator, selector |-> field, value |-> value,
                   queries |-> [j \in DOMAIN queries |-> queries[j].compiled]])])
      process(operator, value) ==
        IF operator \notin ops(OP_QUERY) THEN failed
        ELSE IF operator \notin compoundNames THEN added(operator, value, <<>>)
        ELSE IF ~isArray(value) THEN failed
        ELSE added(operator, value, nestedQueries(value))
  IN  IF st.err \/ i > Len(expr.v) THEN st
      ELSE process(expr.v[i].key, expr.v[i].val)

\* the loop of _compile over the entries of the criteria from entry i on
compileEntries(criteria, i, st) ==
  LET compile(field, expr) ==
        processOperators(field,
                         IF field \in {"$and", "$or", "$nor", "$where"}
                         THEN Obj(<<KV(field, expr)>>) ELSE normalize(expr),
                         1, st)
  IN  IF st.err \/ i > Len(criteria.v) THEN st
      ELSE compileEntries(criteria, i + 1, compile(criteria.v[i].key, criteria.v[i].val))

Query(criteria) ==
  IF isEmpty(criteria) THEN [err |-> FALSE, compiled |-> <<>>]
  ELSE IF ~isObject(criteria) THEN [err |-> TRUE, compiled |-> <<>>]
  ELSE compileEntries(criteria, 1, [err |-> FALSE, compiled |-> <<>>])

\* Query.test(obj) and the test of one predicate handle: "T", "F", or "E" when
\* it throws (resolve on null or undefined is a TypeError)
RECURSIVE QueryTest(_, _), handleTest(_, _), testLoop(_, _, _), andLoop(_, _, _),
          orLoop(_, _, _)

testLoop(compiled, obj, i) ==
  LET continue(r) == IF r = "T" THEN testLoop(compiled, obj, i + 1) ELSE r
  IN  IF i > Len(compiled) THEN "T" ELSE continue(handleTest(compiled[i], obj))

QueryTest(compiled, obj) == testLoop(compiled, obj, 1)

\* $and as it would be if the loop returned after its first query
andLoopFirst(queries, obj, i) ==
  IF i > Len(queries) THEN "T" ELSE QueryTest(queries[i], obj)

\* the loops of the handles of $and, $or and $nor over their nested queries
andLoop(queries, obj, i) ==
  LET continue(r) == IF r = "T" THEN andLoop(queries, obj, i + 1) ELSE r
  IN  IF i > Len(queries) THEN "T" ELSE continue(QueryTest(queries[i], obj))

orLoop(queries, obj, i) ==
  LET continue(r) == IF r = "F" THEN orLoop(queries, obj, i + 1) ELSE r
  IN  IF i > Len(queries) THEN "F" ELSE continue(QueryTest(queries[i], obj))

handleTest(h, obj) ==
  LET negate(r) == IF r = "T" THEN "F" ELSE IF r = "F" THEN "T" ELSE r
  IN  CASE h.op = "$and" -> andLoop(h.queries, obj, 1)
        [] h.op = "$or" -> orLoop(h.queries, obj, 1)
        [] h.op = "$nor" -> negate(orLoop(h.queries, obj, 1))
        [] OTHER ->
             IF getValueThrows(obj) THEN "E"
             ELSE IF simpleOperators(h.op, resolve(obj, h.selector), h.value) THEN "T" ELSE "F"

-----------------------------------------------------------------------------
(* The expression evaluator                                                *)

\* clone(arg): a structural copy of arrays and plain objects
RECURSIVE clone(_)
clone(arg) ==
  IF isArray(arg) THEN Arr([i \in DOMAIN arg.v |-> clone(arg.v[i])])
  ELSE IF isObject(arg) THEN Obj([i \in DOMAIN arg.v |-> KV(arg.v[i].key, clone(arg.v[i].val))])
  ELSE arg

\* The strings of the model that begin with "$", each with expr.slice(1)
DollarRest ==
  "$a" :> "a" @@ "$b" :> "b" @@ "$c" :> "c" @@ "$f" :> "f" @@ "$_id" :> "_id" @@
  "$tags" :> "tags" @@
  "$$x" :> "$x" @@ "$$y" :> "$y" @@
  "$$ROOT" :> "$ROOT" @@ "$$CURRENT" :> "$CURRENT" @@
  "$$KEEP" :> "$KEEP" @@ "$$PRUNE" :> "$PRUNE" @@ "$$DESCEND" :> "$DESCEND"

SYS_VARS == {"$$ROOT", "$$CURRENT"}
REDACT_VARS == {"$$KEEP", "$$PRUNE", "$$DESCEND"}

\* The outcome of an evaluation against obj: the value, or err when it throws,
\* and obj as the evaluation leaves it ($map and $let write on it)
RV(val, obj) == [err |-> FALSE, val |-> val, obj |-> obj]
RE(obj) == [err |-> TRUE, val |-> Undefined, obj |-> obj]

\* opt when the caller passes none
NoOpt == [root |-> Undefined]

RECURSIVE computeValue(_, _, _, _), computeArray(_, _, _, _),
          computeObject(_, _, _, _, _), aggregateOperators(_, _, _, _),
          mapLoop(_, _, _, _, _, _, _), letBind(_, _, _, _),
          groupOperators(_, _, _), pushLoop(_, _, _, _)

\* the loop of $map as it would be without the assignment obj[tempKey] = item
mapLoopUnbound(obj, items, i, tempKey, original, inExpr, acc) ==
  LET restore(r) ==
        IF r.err THEN r
        ELSE mapLoop(IF isUndefined(original) THEN DeleteKey(r.obj, tempKey)
                     ELSE SetKey(r.obj, tempKey, original),
                     items, i + 1, tempKey, original, inExpr, Append(acc, r.val))
  IN  IF i > Len(items) THEN RV(Arr(acc), obj)
      ELSE IF ~isObject(obj) THEN RE(obj)
      ELSE restore(computeValue(obj, inExpr, Null, NoOpt))

\* variableOperators.$map: the loop inputExpr.map(item => ...) from item i on;
\* the assignment obj[tempKey] = item throws when obj is null or undefined
mapLoop(obj, items, i, tempKey, original, inExpr, acc) ==
  LET restore(r) ==
        IF r.err THEN r
        ELSE mapLoop(IF isUndefined(original) THEN DeleteKey(r.obj, tempKey)
                     ELSE SetKey(r.obj, tempKey, original),
                     items, i + 1, tempKey, original, inExpr, Append(acc, r.val))
  IN  IF i > Len(items) THEN RV(Arr(acc), obj)
      ELSE IF ~isObject(obj) THEN RE(obj)
      ELSE restore(computeValue(SetKey(obj, tempKey, items[i]), inExpr, Null, NoOpt))

op_map(obj, expr) ==
  LET loop(inputExpr, tempKey) ==
        IF inputExpr.err THEN inputExpr
        ELSE IF ~isArray(inputExpr.val) THEN RE(inputExpr.obj)
        ELSE mapLoop(inputExpr.obj, inputExpr.val.v, 1, tempKey,
                     getValue(inputExpr.obj, tempKey), getValue(expr, "in"), <<>>)
  IN  loop(computeValue(obj, getValue(expr, "input"), Null, NoOpt),
           "$" \o getValue(expr, "as").v)

\* variableOperators.$let: the first loop, which resolves and binds the vars
\* from entry i on; the result is [err, obj, originals]
letBind(obj, varsExpr, i, originals) ==
  LET bind(r, tempKey) ==
        IF r.err \/ ~isObject(r.obj) THEN [err |-> TRUE, obj |-> r.obj, originals |-> originals]
        ELSE letBind(SetKey(r.obj, tempKey, r.val), varsExpr, i + 1,
                     Append(originals, KV(tempKey, getValue(r.obj, tempKey))))
  IN  IF i > Len(varsExpr.v) THEN [err |-> FALSE, obj |-> obj, originals |-> originals]
      ELSE bind(computeValue(obj, varsExpr.v[i].val, Null, NoOpt), "$" \o varsExpr.v[i].key)

\* $let as it would be without its second loop
letRestoreNone(obj, originals, i) == obj

\* the second loop of $let: cleanup and restore
RECURSIVE letRestore(_, _, _)
letRestore(obj, originals, i) ==
  IF i > Len(originals) THEN obj
  ELSE letRestore(IF isUndefined(originals[i].val) THEN DeleteKey(obj, originals[i].key)
                  ELSE SetKey(obj, originals[i].key, originals[i].val),
                  originals, i + 1)

op_let(obj, expr) ==
  LET restore(originals, r) ==
        IF r.err THEN r ELSE RV(r.val, letRestore(r.obj, originals, 1))
      evaluate(bound) ==
        IF bound.err THEN RE(bound.obj)
        ELSE restore(bound.originals, computeValue(bound.obj, getValue(expr, "in"), Null, NoOpt))
  IN  evaluate(letBind(obj, getValue(expr, "vars"), 1, <<>>))

\* conditionalOperators.$cond
op_cond(obj, expr) ==
  LET branch(condition, thenExpr, elseExpr) ==
        IF condition.err THEN condition
        ELSE computeValue(condition.obj,
                          IF truthy(condition.val) THEN thenExpr ELSE elseExpr, Null, NoOpt)
  IN  IF isArray(expr) /\ Len(expr.v) # 3 THEN RE(obj)
      ELSE IF isArray(expr)
      THEN branch(computeValue(obj, expr.v[1], Null, NoOpt), expr.v[2], expr.v[3])
      ELSE branch(computeValue(obj, getValue(expr, "if"), Null, NoOpt),
                  getValue(expr, "then"), getValue(expr, "else"))

\* the comparison operators mixed into comparisonOperators
op_compare(op, obj, expr) ==
  LET compare(args) ==
        IF args.err THEN args
        ELSE IF ~isArray(args.val) THEN RE(args.obj)
        ELSE RV(Bool(simpleOperators(op, elementAt(args.val, 0), elementAt(args.val, 1))),
                args.obj)
  IN  compare(computeValue(obj, expr, Null, NoOpt))

\* $slice (obj, expr): arr[0] that is null or undefined has no length and
\* cannot be sliced
op_slice(obj, expr) ==
  LET sliced(arr, r) == IF r.err THEN RE(arr.obj) ELSE RV(r.val, arr.obj)
      apply(arr) ==
        IF arr.err THEN arr
        ELSE IF isUnknown(elementAt(arr.val, 0)) THEN RE(arr.obj)
        ELSE sliced(arr, slice(clone(elementAt(arr.val, 0)), elementAt(arr.val, 1),
                               elementAt(arr.val, 2)))
  IN  apply(computeValue(obj, expr, Null, NoOpt))

\* NaN, Infinity and -Infinity, which the integers lack, are the numbers
\* from Beyond on; the numbers that the model computes stay below Beyond
Beyond == 1000000
NaN == Num(Beyond)
Infinity == Num(Beyond + 1)
NegativeInfinity == Num(Beyond + 2)

\* the strings of the model that hold a number, each with the number; Number
\* of another string of the model is NaN
StringNumbers == ("2" :> 2 @@ "5" :> 5)

\* Number(value) of a value that is no array and no object
ToNumber(value) ==
  CASE isNumber(value) -> value.v
    [] isNull(value) -> 0
    [] isBoolean(value) -> IF value.v THEN 1 ELSE 0
    [] isString(value) -> IF value.v \in DOMAIN StringNumbers THEN StringNumbers[value.v]
                          ELSE NaN.v
    [] OTHER -> NaN.v

\* the global isNaN (value): Number(value) is NaN
isNaN(value) == ToNumber(value) = NaN.v

\* String(value) of a value that is no array and no object
ToText(value) ==
  CASE isString(value) -> value.v
    [] isNumber(value) -> IF value = NaN THEN "NaN" ELSE ToString(value.v)
    [] isNull(value) -> "null"
    [] isBoolean(value) -> IF value.v THEN "true" ELSE "false"
    [] OTHER -> "undefined"

\* x - y, x * y, x / y and x % y of two numbers that are finite or NaN; the
\* quotients of the model are whole, and the operands of % are not negative
numeric(op, x, y) ==
  IF x = NaN.v \/ y = NaN.v THEN NaN
  ELSE CASE op = "+" -> Num(x + y)
         [] op = "-" -> Num(x - y)
         [] op = "*" -> Num(x * y)
         [] op = "/" -> IF y # 0 THEN Num(x \div y)
                        ELSE IF x = 0 THEN NaN
                        ELSE IF x > 0 THEN Infinity ELSE NegativeInfinity
         [] op = "%" -> IF y = 0 THEN NaN ELSE Num(x % y)

\* memo + num: a string operand makes it a concatenation
plus(memo, num) ==
  IF isString(memo) \/ isString(num) THEN Str(ToText(memo) \o ToText(num))
  ELSE numeric("+", ToNumber(memo), ToNumber(num))

\* args.reduce((memo, num) => memo + num, 0) and the like from item i on
RECURSIVE reduceArgs(_, _, _, _)
reduceArgs(op, args, i, memo) ==
  IF i > Len(args) THEN memo
  ELSE reduceArgs(op, args, i + 1,
                  IF op = "+" THEN plus(memo, args[i])
                  ELSE numeric(op, ToNumber(memo), ToNumber(args[i])))

\* Math.exp, Math.log, Math.log10 and Math.sqrt at the numbers where the
\* model applies them
Math ==
  [exp |-> (0 :> 1), log |-> (1 :> 0), log10 |-> (1 :> 0 @@ 10 :> 1 @@ 100 :> 2),
   sqrt |-> (1 :> 1 @@ 4 :> 2)]

\* Math.abs, Math.ceil, Math.floor, Math.trunc and the functions above at a
\* whole number or NaN
MathOf(field, n) ==
  IF n = NaN.v THEN NaN
  ELSE CASE field = "$abs" -> Num(IF n < 0 THEN -n ELSE n)
         [] field \in {"$ceil", "$floor", "$trunc"} -> Num(n)
         [] field = "$exp" -> Num(Math.exp[n])
         [] field = "$ln" -> Num(Math.log[n])
         [] field = "$log10" -> Num(Math.log10[n])
         [] field = "$sqrt" -> Num(Math.sqrt[n])

\* arithmeticOperators[field](obj, expr); an operator that takes several
\* operands has them in an array, and what is not an array has no reduce
\* and, when it is null or undefined, no args[0]
arithmeticOperators(field, obj, expr) ==
  LET some(args, test(_)) == \E i \in DOMAIN args.v : test(args.v[i])
      pair(args) == isArray(args) /\ Len(args.v) = 2
      of2(op, args) == numeric(op, ToNumber(elementAt(args, 0)), ToNumber(elementAt(args, 1)))
      apply(r) ==
        CASE r.err -> r
          [] field = "$abs" ->
               IF isUnknown(r.val) THEN RV(Null, r.obj)
               ELSE RV(MathOf(field, ToNumber(r.val)), r.obj)
          [] field \in {"$ceil", "$exp", "$floor", "$ln", "$log10", "$sqrt", "$trunc"} ->
               IF isNaN(r.val) THEN RV(NaN, r.obj)
               ELSE IF isUnknown(r.val) THEN RV(Null, r.obj)
               ELSE IF ~isNumber(r.val) THEN RE(r.obj)
               ELSE IF field \in {"$sqrt", "$trunc"} /\ ~(r.val.v > 0) THEN RE(r.obj)
               ELSE RV(MathOf(field, r.val.v), r.obj)
          [] field \in {"$add", "$multiply"} ->
               IF ~isArray(r.val) THEN RE(r.obj)
               ELSE IF field = "$add" THEN RV(reduceArgs("+", r.val.v, 1, Num(0)), r.obj)
               ELSE RV(reduceArgs("*", r.val.v, 1, Num(1)), r.obj)
          [] field \in {"$divide", "$mod", "$subtract"} ->
               IF isUnknown(r.val) THEN RE(r.obj)
               ELSE RV(of2(CASE field = "$divide" -> "/" [] field = "$mod" -> "%"
                             [] OTHER -> "-", r.val), r.obj)
          [] field = "$log" ->
               IF ~pair(r.val) THEN RE(r.obj)
               ELSE IF some(r.val, isNaN) THEN RV(NaN, r.obj)
               ELSE IF some(r.val, isUnknown) THEN RV(Null, r.obj)
               ELSE IF some(r.val, LAMBDA x : ~isNumber(x)) THEN RE(r.obj)
               ELSE RV(numeric("/", Math.log10[r.val.v[1].v], Math.log10[r.val.v[2].v]), r.obj)
          [] field = "$pow" ->
               IF ~pair(r.val) \/ some(r.val, LAMBDA x : ~isNumber(x)) THEN RE(r.obj)
               ELSE IF r.val.v[1].v = 0 /\ r.val.v[2].v < 0 THEN RE(r.obj)
               ELSE RV(Num(r.val.v[1].v ^ r.val.v[2].v), r.obj)
  IN  apply(computeValue(obj, expr, Null, NoOpt))

ARITHMETIC ==
  {"$abs", "$add", "$ceil", "$divide", "$exp", "$floor", "$ln", "$log", "$log10", "$mod",
   "$multiply", "$pow", "$sqrt", "$subtract", "$trunc"}

\* aggregateOperators[field](obj, expr, opt), for the operators that the
\* expressions of the model use
aggregateOperators(field, obj, expr, opt) ==
  CASE field = "$map" -> op_map(obj, expr)
    [] field = "$let" -> op_let(obj, expr)
    [] field = "$literal" -> RV(expr, obj)
    [] field = "$cond" -> op_cond(obj, expr)
    [] field = "$slice" -> op_slice(obj, expr)
    [] field \in ARITHMETIC -> arithmeticOperators(field, obj, expr)
    [] field \in {"$eq", "$ne", "$gt", "$gte", "$lt", "$lte"} -> op_compare(field, obj, expr)
    [] OTHER -> RV(Undefined, obj)

\* expr.map(item => computeValue(obj, item, null)) from item i on
computeArray(obj, items, i, acc) ==
  LET continue(r) ==
        IF r.err THEN r ELSE computeArray(r.obj, items, i + 1, Append(acc, r.val))
  IN  IF i > Len(items) THEN RV(Arr(acc), obj)
      ELSE continue(computeValue(obj, items[i], Null, NoOpt))

\* the loop of the 'object' case from entry i on
computeObject(obj, expr, i, result, opt) ==
  LET continue(key, r) ==
        IF r.err THEN r
        ELSE IF key \in ops(OP_AGGREGATE)
             THEN (IF Len(expr.v) = 1 THEN RV(r.val, r.obj) ELSE RE(r.obj))
        ELSE computeObject(r.obj, expr, i + 1, SetKey(result, key, r.val), opt)
  IN  IF i > Len(expr.v) THEN RV(result, obj)
      ELSE continue(expr.v[i].key, computeValue(obj, expr.v[i].val, Str(expr.v[i].key), opt))

\* $push: collection.map(obj => computeValue(obj, expr, null)) from item i on.
\* The objects of a group are read here; what a throwing expression leaves
\* on them is not kept.
pushLoop(collection, expr, i, acc) ==
  LET continue(r) ==
        IF r.err THEN RE(Undefined) ELSE pushLoop(collection, expr, i + 1, Append(acc, r.val))
  IN  IF i > Len(collection) THEN RV(Arr(acc), Undefined)
      ELSE continue(computeValue(collection[i], expr, Null, NoOpt))

RECURSIVE SumNumbers(_)
SumNumbers(xs) ==
  IF Len(xs) = 0 THEN 0
  ELSE (IF isNumber(Head(xs)) THEN Head(xs).v ELSE 0) + SumNumbers(Tail(xs))

\* groupOperators[field](collection, expr), for the accumulators that the
\* model uses; collection is an array value
groupOperators(field, collection, expr) ==
  LET valueOf(r) == IF r.err THEN RE(Undefined) ELSE RV(r.val, Undefined)
      sumOf(pushed) ==
        IF pushed.err THEN pushed ELSE RV(Num(SumNumbers(pushed.val.v)), Undefined)
      at(i) ==
        IF Len(collection.v) > 0
        THEN valueOf(computeValue(collection.v[i], expr, Undefined, NoOpt))
        ELSE RV(Undefined, Undefined)
      push == IF isUnknown(expr) THEN RV(clone(collection), Undefined)
              ELSE pushLoop(collection.v, expr, 1, <<>>)
  IN  CASE field \in {"$push", "$sum"} ->
             IF field = "$sum" /\ ~isArray(collection) THEN RV(Num(0), Undefined)
             ELSE IF field = "$sum" /\ isNumber(expr)
             THEN RV(Num(Len(collection.v) * expr.v), Undefined)
             ELSE IF field = "$sum" THEN sumOf(push)
             ELSE push
        [] field \in {"$first", "$last"} -> at(IF field = "$first" THEN 1 ELSE Len(collection.v))
        [] OTHER -> RV(Undefined, Undefined)

\* computeValue(obj, expr, field, opt); field is a string value, null or
\* undefined
computeValue(obj, expr, field, opt0) ==
  LET opt == [root |-> IF truthy(opt0.root) THEN opt0.root ELSE clone(obj)]
      accumulated(resolved, g) ==
        IF g.err THEN RE(resolved.obj) ELSE RV(g.val, resolved.obj)
      fold(name, resolved) ==
        IF resolved.err THEN resolved
        ELSE IF ~isArray(resolved.val) THEN RE(resolved.obj)
        ELSE accumulated(resolved, groupOperators(name, resolved.val, Null))
  IN  IF isString(field) /\ field.v \in ops(OP_AGGREGATE)
      THEN aggregateOperators(field.v, obj, expr, opt)
      ELSE IF isString(field) /\ field.v \in ops(OP_GROUP)
      THEN fold(field.v, computeValue(obj, expr, Null, opt))
      ELSE IF isString(expr) /\ expr.v \in DOMAIN DollarRest THEN
        IF expr.v = "$$ROOT" THEN RV(opt.root, obj)
        ELSE IF expr.v = "$$CURRENT" THEN RV(obj, obj)
        ELSE IF expr.v \in REDACT_VARS THEN RV(expr, obj)
        ELSE IF getValueThrows(obj) THEN RE(obj)
        ELSE RV(resolve(obj, DollarRest[expr.v]), obj)
      ELSE IF isArray(expr) THEN computeArray(obj, expr.v, 1, <<>>)
      ELSE IF isObject(expr) THEN computeObject(obj, expr, 1, Obj(<<>>), opt)
      ELSE RV(clone(expr), obj)

-----------------------------------------------------------------------------
(* Collections and the documents of the caller                             *)
(*                                                                         *)
(* A collection is an array whose elements are documents.  An element is   *)
(* either a value the pipeline created itself or Ref(i), the very object   *)
(* the caller passed as document i: heap[i] is the present content of that *)
(* object.  Reading an element dereferences it, clone makes a value of it, *)
(* and an assignment to a property of a Ref element writes the heap.       *)

Ref(i) == [k |-> "ref", v |-> i]
isRef(e) == e.k = "ref"
Deref(heap, e) == IF isRef(e) THEN heap[e.v] ELSE e
Store(heap, e, obj) == IF isRef(e) THEN [heap EXCEPT ![e.v] = obj] ELSE heap

\* the outcome of a pipeline operator: the collection it returns, the heap and
\* its expression after the call, or err when it throws
SR(heap, coll, expr) == [err |-> FALSE, heap |-> heap, coll |-> coll, expr |-> expr]
SE(heap, expr) == [err |-> TRUE, heap |-> heap, coll |-> Undefined, expr |-> expr]

\* the items each(obj, callback) visits: the elements of an array, the values
\* of a plain object
eachItems(coll) == IF isArray(coll) THEN coll.v ELSE [i \in DOMAIN coll.v |-> coll.v[i].val]

-----------------------------------------------------------------------------
(* Pipeline operators                                                      *)

\* _fetch as it would be if the filter kept the documents the test rejects
fetchFilterKeepsAll(heap, collection, compiled) ==
  IF ~isArray(collection) THEN [err |-> TRUE, coll |-> Undefined]
  ELSE IF \E i \in DOMAIN collection.v : QueryTest(compiled, Deref(heap, collection.v[i])) = "E"
  THEN [err |-> TRUE, coll |-> Undefined]
  ELSE [err |-> FALSE, coll |-> collection]

\* Cursor._fetch of a cursor without operators and projection, as $match
\* builds it: the documents that pass query.test, in their order
fetchFilter(heap, collection, compiled) ==
  LET filter(rs) ==
        IF \E i \in DOMAIN rs : rs[i] = "E" THEN [err |-> TRUE, coll |-> Undefined]
        ELSE [err |-> FALSE, coll |-> Arr(FilterSeq(collection.v, [i \in DOMAIN rs |-> rs[i] = "T"]))]
  IN  IF ~isArray(collection) THEN [err |-> TRUE, coll |-> Undefined]
      ELSE filter([i \in DOMAIN collection.v |-> QueryTest(compiled, Deref(heap, collection.v[i]))])

op_match(heap, collection, expr) ==
  LET all(r) == IF r.err THEN SE(heap, expr) ELSE SR(heap, r.coll, expr)
      find(q) == IF q.err THEN SE(heap, expr) ELSE all(fetchFilter(heap, collection, q.compiled))
  IN  find(Query(expr))

\* collection.slice exists on arrays only; a bound that is not a number
\* converts to 0 (null) or NaN (undefined), both read as 0 by slice
SliceBound(value) == IF isNumber(value) THEN value.v ELSE 0

op_limit(heap, collection, value) ==
  IF ~isArray(collection) THEN SE(heap, value)
  ELSE SR(heap, Arr(arraySlice(collection.v, 0,
                               IF isUndefined(value) THEN Len(collection.v) ELSE SliceBound(value))),
          value)

\* $skip as it would be with the bounds of $limit
op_skipKeepsFirst(heap, collection, value) ==
  IF ~isArray(collection) THEN SE(heap, value)
  ELSE SR(heap, Arr(arraySlice(collection.v, 0, SliceBound(value))), value)

op_skip(heap, collection, value) ==
  IF ~isArray(collection) THEN SE(heap, value)
  ELSE SR(heap, Arr(arraySlice(collection.v, SliceBound(value), Len(collection.v))), value)

\* sortedIndex[hashcode(k)] after sortBy has visited all the keys: the index
\* written last under that hash
findIndex(groupKeys, k) ==
  LET find(hashes, hash) ==
        CHOOSE i \in DOMAIN hashes :
          hashes[i] = hash /\ \A j \in (i + 1)..Len(hashes) : hashes[j] # hash
  IN  find([i \in DOMAIN groupKeys |-> hashcode(groupKeys[i])], hashcode(k))

\* a round of $sort as it would be if -1 reversed the sorted collection
\* instead of the sorted keys
sortRoundReversesAll(heap, items, key, direction) ==
  LET place(grouped, indexKeys) ==
        Flatten([j \in DOMAIN indexKeys |-> grouped.groups[findIndex(grouped.keys, indexKeys[j])]])
      order(ascending) == IF direction = Num(-1) THEN Reverse(ascending) ELSE ascending
      regroup(grouped) == order(place(grouped, sortBy(grouped.keys, grouped.keys)))
  IN  regroup(groupBy(items, [i \in DOMAIN items |-> resolve(Deref(heap, items[i]), key)]))

\* one round of the loop of $sort, for one key of the sort specification
sortRound(heap, items, key, direction) ==
  LET place(grouped, indexKeys) ==
        Flatten([j \in DOMAIN indexKeys |-> grouped.groups[findIndex(grouped.keys, indexKeys[j])]])
      order(grouped, ascending) ==
        place(grouped, IF direction = Num(-1) THEN Reverse(ascending) ELSE ascending)
      regroup(grouped) == order(grouped, sortBy(grouped.keys, grouped.keys))
  IN  regroup(groupBy(items, [i \in DOMAIN items |-> resolve(Deref(heap, items[i]), key)]))

\* the loop of $sort over the keys of the sort specification, reversed: st
\* holds the collection and the number of keys left
RECURSIVE sortRounds(_, _, _)
\* the loop of $sort as it would be over the keys in declaration order
sortRoundsForward(heap, st, sortKeys) ==
  LET next == Len(sortKeys.v) - st.n + 1
  IN  IF st.n = 0 THEN st.items
      ELSE sortRounds(heap,
                      [items |-> sortRound(heap, st.items, sortKeys.v[next].key, sortKeys.v[next].val),
                       n |-> st.n - 1],
                      sortKeys)

sortRounds(heap, st, sortKeys) ==
  IF st.n = 0 THEN st.items
  ELSE sortRounds(heap,
                  [items |-> sortRound(heap, st.items, sortKeys.v[st.n].key, sortKeys.v[st.n].val),
                   n |-> st.n - 1],
                  sortKeys)

op_sort(heap, collection, sortKeys) ==
  IF ~isEmpty(sortKeys) /\ isObject(sortKeys)
  THEN IF ~isObjectLike(collection) THEN SE(heap, sortKeys)
       ELSE IF \E i \in DOMAIN eachItems(collection) :
                 getValueThrows(Deref(heap, eachItems(collection)[i]))
       THEN SE(heap, sortKeys)
       ELSE SR(heap, Arr(sortRounds(heap, [items |-> eachItems(collection), n |-> Len(sortKeys.v)], sortKeys)), sortKeys)
  ELSE SR(heap, collection, sortKeys)

\* the names $count accepts: not empty, without a dot, not starting with $
DollarNames == DOMAIN DollarRest \cup UNION {OPERATORS[t] : t \in DOMAIN OPERATORS}
startsWithDollar(name) == name \in DollarNames

op_count(heap, collection, expr) ==
  IF ~(isString(expr) /\ expr.v # "" /\ ~startsWithDollar(expr.v)) THEN SE(heap, expr)
  ELSE SR(heap,
          Obj(<<KV(expr.v, IF isArray(collection) THEN Num(Len(collection.v)) ELSE Undefined)>>),
          expr)

\* $unwind: the loop runs over collection.length, which only an array has
RECURSIVE unwindLoop(_, _, _, _, _)
\* the loop of $unwind as it would be if it passed over a value that is not an
\* array
unwindLoopSkips(heap, items, field, i, result) ==
  LET unwound(obj, value) ==
        unwindLoop(heap, items, field, i + 1,
          IF ~isArray(value) THEN result
          ELSE result \o [j \in DOMAIN value.v |-> SetKey(clone(obj), field, value.v[j])])
      unwind(obj) ==
        IF getValueThrows(obj) THEN [err |-> TRUE, coll |-> Undefined]
        ELSE unwound(obj, getValue(obj, field))
  IN  IF i > Len(items) THEN [err |-> FALSE, coll |-> Arr(result)]
      ELSE unwind(Deref(heap, items[i]))

unwindLoop(heap, items, field, i, result) ==
  LET unwound(obj, value) ==
        IF ~isArray(value) THEN [err |-> TRUE, coll |-> Undefined]
        ELSE unwindLoop(heap, items, field, i + 1,
               result \o [j \in DOMAIN value.v |-> SetKey(clone(obj), field, value.v[j])])
      unwind(obj) ==
        IF getValueThrows(obj) THEN [err |-> TRUE, coll |-> Undefined]
        ELSE unwound(obj, getValue(obj, field))
  IN  IF i > Len(items) THEN [err |-> FALSE, coll |-> Arr(result)]
      ELSE unwind(Deref(heap, items[i]))

op_unwind(heap, collection, expr) ==
  LET out(r) == IF r.err THEN SE(heap, expr) ELSE SR(heap, r.coll, expr)
  IN  IF ~isString(expr) \/ expr.v \notin DOMAIN DollarRest THEN SE(heap, expr)
      ELSE out(unwindLoop(heap, IF isArray(collection) THEN collection.v ELSE <<>>,
                          DollarRest[expr.v], 1, <<>>))

\* resolveObj(obj, selector) for a selector of one segment on a value that is
\* not an array; an absent value makes the assertion fail, which the catch
\* turns into undefined
resolveObj(obj, selector) ==
  IF isUndefined(obj) \/ isNull(obj) \/ isUndefined(getValue(obj, selector)) THEN Undefined
  ELSE Obj(<<KV(selector, getValue(obj, selector))>>)

\* Object.assign(target, source) on plain objects
RECURSIVE objectAssign(_, _, _)
objectAssign(target, source, i) ==
  IF i > Len(source.v) THEN target
  ELSE objectAssign(SetKey(target, source.v[i].key, source.v[i].val), source, i + 1)

\* removeValue(obj, selector) for each of the selectors, of one segment
RECURSIVE removeValues(_, _, _)
removeValues(obj, dropKeys, i) ==
  IF i > Len(dropKeys) THEN obj
  ELSE removeValues(IF isObject(obj) THEN DeleteKey(obj, dropKeys[i]) ELSE obj, dropKeys, i + 1)

\* the validation of $project as it would be if only 0 counted as an exclusion
projectMixesZeroOnly(expr) ==
  /\ \E i \in DOMAIN expr.v : expr.v[i].key # settings.key /\ expr.v[i].val = Num(0)
  /\ \E i \in DOMAIN expr.v : expr.v[i].key # settings.key /\ expr.v[i].val # Num(0)

\* the validation loop of $project from key i on, check being the pair the
\* loop keeps: TRUE when the assertion in the loop fails
RECURSIVE projectCheckLoop(_, _, _)
projectCheckLoop(expr, i, check) ==
  LET assert(checked) ==
        IF checked[1] = checked[2] THEN TRUE ELSE projectCheckLoop(expr, i + 1, checked)
  IN  IF i > Len(expr.v) THEN FALSE
      ELSE IF expr.v[i].key = settings.key THEN projectCheckLoop(expr, i + 1, check)
      ELSE IF expr.v[i].val = Num(0) \/ expr.v[i].val = Bool(FALSE)
      THEN assert(<<TRUE, check[2]>>)
      ELSE assert(<<check[1], TRUE>>)

projectMixes(expr) == projectCheckLoop(expr, 1, <<FALSE, FALSE>>)

\* the keys $project visits per document
projectKeys(expr) ==
  IF ~has(expr, settings.key) THEN Append(keys(expr), settings.key)
  ELSE IF getValue(expr, settings.key) \in {Num(0), Bool(FALSE)}
  THEN FilterSeq(keys(expr), [i \in DOMAIN expr.v |-> expr.v[i].key # settings.key])
  ELSE keys(expr)

idOnlyExcludedExpression(expr) ==
  /\ has(expr, settings.key)
  /\ getValue(expr, settings.key) \in {Num(0), Bool(FALSE)}
  /\ Len(projectKeys(expr)) = 0

\* the body of each(objKeys, ...) in $project for one key; st carries obj,
\* cloneObj, foundExclusion and dropKeys.  The projection expressions of the
\* model hold no projection operator but a $slice whose argument is not all
\* numbers, which $project hands to computeValue.
projectKey(expr, key, st) ==
  LET merge(cloneObj, value, objValue) ==
        IF ~isUndefined(objValue)
        THEN objectAssign(cloneObj,
                          IF ~isUndefined(value) THEN SetKey(objValue, key, value) ELSE objValue, 1)
        ELSE IF ~isUndefined(value) THEN SetKey(cloneObj, key, value)
        ELSE cloneObj
      keep(found, computed) ==
        IF computed.err
        THEN [st EXCEPT !.err = TRUE, !.obj = computed.obj, !.foundExclusion = found]
        ELSE [st EXCEPT !.obj = computed.obj, !.foundExclusion = found,
                        !.cloneObj = merge(st.cloneObj, clone(computed.val),
                                           clone(resolveObj(computed.obj, key)))]
      project(subExpr, found) ==
        IF key = settings.key /\ isEmpty(subExpr)
        THEN keep(found, IF getValueThrows(st.obj) THEN RE(st.obj)
                         ELSE RV(getValue(st.obj, key), st.obj))
        ELSE IF isString(subExpr) \/ isObject(subExpr)
        THEN keep(found, computeValue(st.obj, subExpr, Str(key), NoOpt))
        ELSE IF subExpr = Num(1) \/ subExpr = Bool(TRUE)
        THEN keep(found, RV(Undefined, st.obj))
        ELSE [st EXCEPT !.foundExclusion = found, !.dropKeys = Append(st.dropKeys, key)]
  IN  project(getValue(expr, key),
              st.foundExclusion \/ (key # settings.key /\ getValue(expr, key) = Num(0)))

RECURSIVE projectKeysLoop(_, _, _, _)
projectKeysLoop(expr, objKeys, i, st) ==
  IF i > Len(objKeys) \/ st.err THEN st
  ELSE projectKeysLoop(expr, objKeys, i + 1, projectKey(expr, objKeys[i], st))

\* the body of the loop of $project over the collection for one document:
\* [err, obj, cloneObj], obj being the document after the call
projectDoc(obj0, expr) ==
  LET finish(idOnly, st) ==
        IF st.err THEN [err |-> TRUE, obj |-> st.obj, cloneObj |-> Undefined]
        ELSE IF st.foundExclusion \/ idOnly
        THEN IF isUnknown(st.obj) THEN [err |-> TRUE, obj |-> st.obj, cloneObj |-> Undefined]
             ELSE [err |-> FALSE, obj |-> st.obj,
                   cloneObj |-> removeValues(objectAssign(clone(st.obj), st.cloneObj, 1),
                                             st.dropKeys, 1)]
        ELSE [err |-> FALSE, obj |-> st.obj, cloneObj |-> st.cloneObj]
      start(idOnly) ==
        finish(idOnly,
               projectKeysLoop(expr, projectKeys(expr), 1,
                 [err |-> FALSE, obj |-> obj0, cloneObj |-> Obj(<<>>), foundExclusion |-> FALSE,
                  dropKeys |-> IF idOnly THEN <<settings.key>> ELSE <<>>]))
  IN  start(idOnlyExcludedExpression(expr))

RECURSIVE projectLoop(_, _, _, _, _)
projectLoop(heap, items, expr, i, projected) ==
  LET push(r) ==
        IF r.err THEN SE(Store(heap, items[i], r.obj), expr)
        ELSE projectLoop(Store(heap, items[i], r.obj), items, expr, i + 1,
                         Append(projected, r.cloneObj))
  IN  IF i > Len(items) THEN SR(heap, Arr(projected), expr)
      ELSE push(projectDoc(Deref(heap, items[i]), expr))

op_project(heap, collection, expr) ==
  IF isEmpty(expr) THEN SR(heap, collection, expr)
  ELSE IF projectMixes(expr) THEN SE(heap, expr)
  ELSE projectLoop(heap, IF isArray(collection) THEN collection.v ELSE <<>>, expr, 1, <<>>)

\* accumulate(collection, field, expr) over the documents of one group
RECURSIVE accumulate(_, _, _), accumulateObject(_, _, _, _)
accumulateObject(collection, expr, i, result) ==
  LET continue(key, r) ==
        IF r.err THEN r
        ELSE IF key \in ops(OP_GROUP)
        THEN (IF Len(expr.v) > 1 THEN RE(Undefined) ELSE RV(r.val, Undefined))
        ELSE accumulateObject(collection, expr, i + 1, SetKey(result, key, r.val))
  IN  IF i > Len(expr.v) THEN RV(result, Undefined)
      ELSE continue(expr.v[i].key, accumulate(collection, expr.v[i].key, expr.v[i].val))

accumulate(collection, field, expr) ==
  IF field \in ops(OP_GROUP) THEN groupOperators(field, collection, expr)
  ELSE IF isObject(expr) THEN accumulateObject(collection, expr, 1, Obj(<<>>))
  ELSE RV(Undefined, Undefined)

\* the group keys of $group: computeValue(obj, idKey, idKey) per document
RECURSIVE groupKeysLoop(_, _, _, _, _)
groupKeysLoop(heap, items, idKey, i, keyOf) ==
  LET continue(r) ==
        IF r.err THEN [err |-> TRUE, heap |-> Store(heap, items[i], r.obj), keyOf |-> keyOf]
        ELSE groupKeysLoop(Store(heap, items[i], r.obj), items, idKey, i + 1,
                           Append(keyOf, r.val))
  IN  IF i > Len(items) THEN [err |-> FALSE, heap |-> heap, keyOf |-> keyOf]
      ELSE continue(computeValue(Deref(heap, items[i]), idKey, idKey, NoOpt))

\* the document $group builds for one partition
RECURSIVE groupFields(_, _, _, _)
groupFields(group, expr, i, obj) ==
  LET continue(r) ==
        IF r.err THEN r ELSE groupFields(group, expr, i + 1, SetKey(obj, expr.v[i].key, r.val))
  IN  IF i > Len(expr.v) THEN RV(obj, Undefined)
      ELSE continue(accumulate(group, expr.v[i].key, expr.v[i].val))

\* $group as it would be if it deleted the group key from a copy of its
\* expression
op_groupOnCopy(heap, collection, expr) ==
  LET out(ks, rest, docs) ==
        IF \E i \in DOMAIN docs : docs[i].err THEN SE(ks.heap, expr)
        ELSE SR(ks.heap, Arr([i \in DOMAIN docs |-> docs[i].val]), expr)
      build(ks, rest, partitions) ==
        out(ks, rest,
            [i \in DOMAIN partitions.keys |->
               groupFields(Arr([j \in DOMAIN partitions.groups[i] |->
                                  Deref(ks.heap, partitions.groups[i][j])]),
                           IF isObject(rest) THEN rest ELSE Obj(<<>>), 1,
                           IF isUndefined(partitions.keys[i]) THEN Obj(<<>>)
                           ELSE Obj(<<KV(settings.key, partitions.keys[i])>>))])
      group(items, ks) ==
        IF ks.err THEN SE(ks.heap, expr)
        ELSE build(ks, IF isObject(expr) THEN DeleteKey(expr, settings.key) ELSE expr,
                   groupBy(items, ks.keyOf))
      start(items) == group(items, groupKeysLoop(heap, items, getValue(expr, settings.key), 1, <<>>))
  IN  IF isUnknown(expr) \/ ~isObjectLike(collection) THEN SE(heap, expr)
      ELSE start(eachItems(collection))

\* $group deletes the group key from its expression before it accumulates
op_group(heap, collection, expr) ==
  LET out(ks, rest, docs) ==
        IF \E i \in DOMAIN docs : docs[i].err THEN SE(ks.heap, rest)
        ELSE SR(ks.heap, Arr([i \in DOMAIN docs |-> docs[i].val]), rest)
      build(ks, rest, partitions) ==
        out(ks, rest,
            [i \in DOMAIN partitions.keys |->
               groupFields(Arr([j \in DOMAIN partitions.groups[i] |->
                                  Deref(ks.heap, partitions.groups[i][j])]),
                           IF isObject(rest) THEN rest ELSE Obj(<<>>), 1,
                           IF isUndefined(partitions.keys[i]) THEN Obj(<<>>)
                           ELSE Obj(<<KV(settings.key, partitions.keys[i])>>))])
      group(items, ks) ==
        IF ks.err THEN SE(ks.heap, expr)
        ELSE build(ks, IF isObject(expr) THEN DeleteKey(expr, settings.key) ELSE expr,
                   groupBy(items, ks.keyOf))
      start(items) == group(items, groupKeysLoop(heap, items, getValue(expr, settings.key), 1, <<>>))
  IN  IF isUnknown(expr) \/ ~isObjectLike(collection) THEN SE(heap, expr)
      ELSE start(eachItems(collection))

\* the body of each(newFields, ...) in $addFields from field i on, on the
\* clone obj of the document
RECURSIVE addFieldsLoop(_, _, _)
addFieldsLoop(obj, expr, i) ==
  LET set(selector, r) ==
        IF r.err \/ ~isObject(r.obj) THEN RE(r.obj)
        ELSE addFieldsLoop(SetKey(r.obj, selector, r.val), expr, i + 1)
      compute(subExpr, subKeys, operator) ==
        IF ~isObject(subExpr) THEN computeValue(obj, subExpr, Null, NoOpt)
        ELSE IF Len(operator) = 0 THEN RV(Undefined, obj)
        ELSE IF Len(subKeys) # 1 THEN RE(obj)
        ELSE computeValue(obj, getValue(subExpr, operator[1]), Str(operator[1]), NoOpt)
      add(selector, subExpr, subKeys) ==
        set(selector,
            compute(subExpr, subKeys,
                    FilterSeq(subKeys, [j \in DOMAIN subKeys |-> startsWithDollar(subKeys[j])])))
  IN  IF i > Len(expr.v) THEN RV(obj, obj)
      ELSE add(expr.v[i].key, expr.v[i].val,
               IF isObject(expr.v[i].val) THEN keys(expr.v[i].val) ELSE <<>>)

op_addFields(heap, collection, expr) ==
  LET out(docs) ==
        IF \E i \in DOMAIN docs : docs[i].err THEN SE(heap, expr)
        ELSE SR(heap, Arr([i \in DOMAIN docs |-> docs[i].val]), expr)
      add(fields) ==
        out([i \in DOMAIN collection.v |->
               addFieldsLoop(clone(Deref(heap, collection.v[i])), fields, 1)])
  IN  IF isUnknown(expr) \/ ~isArray(collection) THEN SE(heap, expr)
      ELSE add(IF isObject(expr) THEN expr ELSE Obj(<<>>))

\* $replaceRoot: $$CURRENT evaluates to the document itself, any other
\* expression of the model to a new value
RECURSIVE replaceRootLoop(_, _, _, _, _)
replaceRootLoop(heap, items, newRoot, i, result) ==
  LET push(r) ==
        IF r.err \/ ~isObject(r.val)
        THEN [err |-> TRUE, heap |-> Store(heap, items[i], r.obj), coll |-> Undefined]
        ELSE replaceRootLoop(Store(heap, items[i], r.obj), items, newRoot, i + 1,
               Append(result, IF newRoot = Str("$$CURRENT") THEN items[i] ELSE r.val))
  IN  IF i > Len(items) THEN [err |-> FALSE, heap |-> heap, coll |-> Arr(result)]
      ELSE push(computeValue(Deref(heap, items[i]), newRoot, Null, NoOpt))

op_replaceRoot(heap, collection, expr) ==
  LET out(r) == IF r.err THEN SE(r.heap, expr) ELSE SR(r.heap, r.coll, expr)
  IN  IF isUnknown(expr) \/ ~isObjectLike(collection) THEN SE(heap, expr)
      ELSE out(replaceRootLoop(heap, eachItems(collection), getValue(expr, "newRoot"), 1, <<>>))

\* redactObj(obj, expr, opt) and redactVariables[name](obj, expr, opt); the
\* result is a value, undefined for a pruned document
RECURSIVE redactObj(_, _, _), redactVariables(_, _, _, _), descendLoop(_, _, _, _),
          descendArray(_, _, _, _, _)

\* the inner each of $$DESCEND over the elements of an array field
descendArray(elems, expr, opt, i, result) ==
  LET push(r) ==
        IF r.err THEN r
        ELSE descendArray(elems, expr, opt, i + 1,
               IF isUndefined(r.val) THEN result ELSE Append(result, r.val))
  IN  IF i > Len(elems) THEN RV(Arr(result), Undefined)
      ELSE push(IF isObject(elems[i]) THEN redactObj(elems[i], expr, opt)
                ELSE RV(elems[i], Undefined))

\* the outer each of $$DESCEND over the keys obj had when the loop began
descendLoop(obj, fieldNames, expr, opt) ==
  LET put(key, r) ==
        IF r.err THEN r
        ELSE descendLoop(IF isUndefined(r.val) THEN DeleteKey(obj, key)
                         ELSE SetKey(obj, key, r.val),
                         Tail(fieldNames), expr, opt)
      visit(key, current) ==
        IF ~isObjectLike(current) THEN descendLoop(obj, Tail(fieldNames), expr, opt)
        ELSE put(key, IF isArray(current) THEN descendArray(current.v, expr, opt, 1, <<>>)
                      ELSE redactObj(current, expr, opt))
  IN  IF Len(fieldNames) = 0 THEN RV(obj, Undefined)
      ELSE visit(Head(fieldNames), getValue(obj, Head(fieldNames)))

redactVariables(name, obj, expr, opt) ==
  CASE name = "$$KEEP" -> RV(obj, Undefined)
    [] name = "$$PRUNE" -> RV(Undefined, Undefined)
    [] name = "$$DESCEND" ->
         IF ~(isObject(expr) /\ has(expr, "$cond")) THEN RV(obj, Undefined)
         ELSE IF ~isObjectLike(obj) THEN RE(Undefined)
         ELSE descendLoop(obj, keys(obj), expr, opt)

redactObj(obj, expr, opt0) ==
  LET apply(opt, result) ==
        IF result.err THEN RE(Undefined)
        ELSE IF isString(result.val) /\ result.val.v \in REDACT_VARS
        THEN redactVariables(result.val.v, result.obj, expr, opt)
        ELSE RV(result.val, Undefined)
      redact(opt) == apply(opt, computeValue(obj, expr, Null, opt))
  IN  redact([root |-> IF truthy(opt0.root) THEN opt0.root ELSE clone(obj)])

op_redact(heap, collection, expr) ==
  LET out(docs) ==
        IF \E i \in DOMAIN docs : docs[i].err THEN SE(heap, expr)
        ELSE SR(heap, Arr([i \in DOMAIN docs |-> docs[i].val]), expr)
  IN  IF ~isArray(collection) THEN SE(heap, expr)
      ELSE out([i \in DOMAIN collection.v |->
                  redactObj(clone(Deref(heap, collection.v[i])), expr, NoOpt)])

\* $sortByCount calls this.$group and this.$sort: Aggregator.run calls the
\* operator on the query when it has one, and a query has neither method
op_sortByCount(ctx, heap, collection, expr) ==
  LET out(sorted) == IF sorted.err THEN SE(sorted.heap, expr) ELSE SR(sorted.heap, sorted.coll, expr)
      sort(grouped) ==
        IF grouped.err THEN SE(grouped.heap, expr)
        ELSE out(op_sort(grouped.heap, grouped.coll, Obj(<<KV("count", Num(-1))>>)))
  IN  IF ctx = "query" THEN SE(heap, expr)
      ELSE sort(op_group(heap, collection,
                         Obj(<<KV("count", Obj(<<KV("$sum", Num(1))>>)), KV(settings.key, expr)>>)))

\* pipelineOperators[key].call(ctx, collection, expr); $sample draws random
\* numbers and is not part of the model
pipelineOperators(key, ctx, heap, collection, expr) ==
  CASE key = "$addFields" -> op_addFields(heap, collection, expr)
    [] key = "$group" -> op_group(heap, collection, expr)
    [] key = "$match" -> op_match(heap, collection, expr)
    [] key = "$project" -> op_project(heap, collection, expr)
    [] key = "$limit" -> op_limit(heap, collection, expr)
    [] key = "$skip" -> op_skip(heap, collection, expr)
    [] key = "$unwind" -> op_unwind(heap, collection, expr)
    [] key = "$sort" -> op_sort(heap, collection, expr)
    [] key = "$sortByCount" -> op_sortByCount(ctx, heap, collection, expr)
    [] key = "$count" -> op_count(heap, collection, expr)
    [] key = "$replaceRoot" -> op_replaceRoot(heap, collection, expr)
    [] key = "$redact" -> op_redact(heap, collection, expr)

-----------------------------------------------------------------------------
(* Aggregator                                                              *)

\* the test as it would be if it looked at the first key only
validOperatorFirstKey(operator) ==
  isObject(operator) /\ Len(operator.v) >= 1 /\ operator.v[1].key \in ops(OP_PIPELINE)

\* the test of Aggregator.run on one element of the pipeline
validOperator(operator) ==
  isObject(operator) /\ Len(operator.v) = 1 /\ operator.v[1].key \in ops(OP_PIPELINE)

\* Aggregator.run(collection, query) from operator i on: the collection it
\* returns, or err when it throws; heap and operators as the run leaves them
RECURSIVE runFrom(_, _, _, _, _)
runFrom(ctx, heap, collection, operators, i) ==
  LET continue(key, r) ==
        IF r.err
        THEN [err |-> TRUE, heap |-> r.heap, coll |-> Undefined,
              operators |-> [operators EXCEPT ![i] = Obj(<<KV(key, r.expr)>>)]]
        ELSE runFrom(ctx, r.heap, r.coll, [operators EXCEPT ![i] = Obj(<<KV(key, r.expr)>>)], i + 1)
  IN  IF i > Len(operators)
      THEN [err |-> FALSE, heap |-> heap, coll |-> collection, operators |-> operators]
      ELSE IF ~validOperator(operators[i])
      THEN [err |-> TRUE, heap |-> heap, coll |-> Undefined, operators |-> operators]
      ELSE continue(operators[i].v[1].key,
                    pipelineOperators(operators[i].v[1].key, ctx, heap, collection,
                                      operators[i].v[1].val))

run(ctx, heap, collection, operators) == runFrom(ctx, heap, collection, operators, 1)

-----------------------------------------------------------------------------
(* Inputs                                                                  *)

MaxDocs == 3
AggDocs == 2
CursorDocs == 2
MaxVal == 2
MaxStages == 2
MaxCalls == 3
MaxAdds == 3
MaxSkip == 2
MaxRuns == 3
MaxSlice == 4

\* document i of a collection: its _id is its index and b the parity of the
\* index; field a is a number or absent (0), and tags lists a and its
\* successor
Doc(id, a) ==
  IF a = 0 THEN Obj(<<KV("_id", Num(id)), KV("b", Num(id % 2)), KV("tags", Arr(<<>>))>>)
  ELSE Obj(<<KV("_id", Num(id)), KV("a", Num(a)), KV("b", Num(id % 2)),
             KV("tags", Arr(<<Num(a), Num(a + 1)>>))>>)

HeapsUpTo(max) == UNION {[1..n -> {0} \cup 1..MaxVal] : n \in 0..max}
Heaps == HeapsUpTo(MaxDocs)
HeapOf(as) == [i \in DOMAIN as |-> Doc(i, as[i])]
RefsOf(heap) == Arr([i \in DOMAIN heap |-> Ref(i)])

\* what the caller holds after the call: the collection with its elements
\* dereferenced
Contents(heap, coll) ==
  IF isArray(coll) THEN Arr([i \in DOMAIN coll.v |-> Deref(heap, coll.v[i])]) ELSE coll

Stage(key, expr) == Obj(<<KV(key, expr)>>)
Obj1(key, val) == Obj(<<KV(key, val)>>)
Obj2(k1, v1, k2, v2) == Obj(<<KV(k1, v1), KV(k2, v2)>>)
Obj3(k1, v1, k2, v2, k3, v3) == Obj(<<KV(k1, v1), KV(k2, v2), KV(k3, v3)>>)

\* the expressions {$map: {input, as, in}} and {$let: {vars, in}}
Map(inputExpr, as, inExpr) ==
  Obj1("$map", Obj3("input", inputExpr, "as", Str(as), "in", inExpr))
Let(varsExpr, inExpr) == Obj1("$let", Obj2("vars", varsExpr, "in", inExpr))

-----------------------------------------------------------------------------
(* Cursor                                                                  *)

\* the pipeline as it would be if _fetch took the operators in the order of
\* the calls
fetchPipelineAsCalled(cursorOperators) ==
  [j \in DOMAIN cursorOperators.v |-> Stage(cursorOperators.v[j].key, cursorOperators.v[j].val)]

\* the pipeline Cursor._fetch builds from this._operators
fetchPipeline(cursorOperators) ==
  LET push(selected) ==
        [j \in DOMAIN selected |-> Stage(selected[j], getValue(cursorOperators, selected[j]))]
      select(names) ==
        push(FilterSeq(names, [j \in DOMAIN names |-> has(cursorOperators, names[j])]))
  IN  select(<<"$sort", "$skip", "$limit", "$project">>)

\* _fetch without its first test: every call materializes
fetchAgain(heap, cursorCollection, criteria, projection, cursorOperators, cursorResult) ==
  LET injected ==
        IF isObject(projection) THEN SetKey(cursorOperators, "$project", projection)
        ELSE cursorOperators
      out(filtered, r) ==
        IF filtered.err
        THEN [err |-> TRUE, heap |-> heap, operators |-> injected, result |-> cursorResult]
        ELSE IF Len(fetchPipeline(injected)) = 0
        THEN [err |-> FALSE, heap |-> heap, operators |-> injected, result |-> filtered.coll]
        ELSE IF r.err
        THEN [err |-> TRUE, heap |-> r.heap, operators |-> injected, result |-> filtered.coll]
        ELSE [err |-> FALSE, heap |-> r.heap, operators |-> injected, result |-> r.coll]
  IN  out(fetchFilter(heap, cursorCollection, Query(criteria).compiled),
          run("query", heap,
              fetchFilter(heap, cursorCollection, Query(criteria).compiled).coll,
              fetchPipeline(injected)))

\* Cursor._fetch(): err when it throws, with this._operators, this._result
\* and the heap as the call leaves them; this._result is false until a call
\* has assigned it
fetch(heap, cursorCollection, criteria, projection, cursorOperators, cursorResult) ==
  LET injected ==
        IF isObject(projection) THEN SetKey(cursorOperators, "$project", projection)
        ELSE cursorOperators
      out(filtered, r) ==
        IF cursorResult # Bool(FALSE)
        THEN [err |-> FALSE, heap |-> heap, operators |-> cursorOperators, result |-> cursorResult]
        ELSE IF filtered.err
        THEN [err |-> TRUE, heap |-> heap, operators |-> injected, result |-> cursorResult]
        ELSE IF Len(fetchPipeline(injected)) = 0
        THEN [err |-> FALSE, heap |-> heap, operators |-> injected, result |-> filtered.coll]
        ELSE IF r.err
        THEN [err |-> TRUE, heap |-> r.heap, operators |-> injected, result |-> filtered.coll]
        ELSE [err |-> FALSE, heap |-> r.heap, operators |-> injected, result |-> r.coll]
  IN  out(fetchFilter(heap, cursorCollection, Query(criteria).compiled),
          run("query", heap,
              fetchFilter(heap, cursorCollection, Query(criteria).compiled).coll,
              fetchPipeline(injected)))


-----------------------------------------------------------------------------
VARIABLES
  heap,             \* the documents of the caller, as they are now
  input,            \* the documents of the caller, as they were passed
  pipeline,         \* Aggregator: the pipeline, as it was passed
  operators,        \* Aggregator: this._operators
  collection,       \* Aggregator.run: the local variable collection
  index,            \* Aggregator.run: the loop variable i, from 1
  status,           \* "running", "returned" or "threw": where the call is
  result,           \* the value the call returned
  context,          \* Aggregator.run: "query" when a query is passed, else "none"
  runs,             \* Aggregator.run: the calls made on this aggregator so far
  criteria,         \* Cursor: the criteria of this._query
  projection,       \* Cursor: this._projection
  cursorOperators,  \* Cursor: this._operators
  cursorResult,     \* Cursor: this._result
  position,         \* Cursor: this._position
  calls,            \* Cursor: the skip, limit and sort calls made so far, each with
                    \* whether this._result was already assigned
  operatorTables,   \* OPERATORS: per operator class, the handler under each name
  added             \* Mingo.addOperators: the arguments of the calls made so far

aggVars == <<pipeline, operators, collection, index, context, runs>>
cursorVars == <<criteria, projection, cursorOperators, cursorResult, position, calls>>
registryVars == <<operatorTables, added>>
vars == <<heap, input, status, result, aggVars, cursorVars, registryVars>>

\* the tables as the library defines them: every name of OPERATORS with the
\* handler the library gives it
BuiltIn ==
  [t \in DOMAIN OPERATORS |-> [name \in OPERATORS[t] |-> [f |-> 0, wrap |-> "none", ctx |-> Obj(<<>>)]]]

NoAddOperators ==
  /\ operatorTables = BuiltIn
  /\ added = <<>>

NoAggregator ==
  /\ pipeline = <<>>
  /\ operators = <<>>
  /\ collection = Undefined
  /\ index = 0
  /\ context = "none"
  /\ runs = 0

NoCursor ==
  /\ criteria = Undefined
  /\ projection = Undefined
  /\ cursorOperators = Obj(<<>>)
  /\ cursorResult = Bool(FALSE)
  /\ position = 0
  /\ calls = <<>>

-----------------------------------------------------------------------------
(* Aggregator.run, one iteration of its loop at a time                     *)

\* the state after new Aggregator(stages), at the call of run on docs
Start(docs, stages, ctx) ==
  /\ heap = docs
  /\ input = docs
  /\ pipeline = stages
  /\ operators = stages
  /\ collection = RefsOf(docs)
  /\ index = 1
  /\ status = "running"
  /\ result = Undefined
  /\ context = ctx
  /\ runs = 1
  /\ NoCursor
  /\ NoAddOperators

\* one iteration of the loop of run on a valid operator
RunOperator ==
  LET assign(key, r) ==
        /\ heap' = r.heap
        /\ operators' = [operators EXCEPT ![index] = Obj(<<KV(key, r.expr)>>)]
        /\ collection' = IF r.err THEN collection ELSE r.coll
        /\ index' = IF r.err THEN index ELSE index + 1
        /\ status' = IF r.err THEN "threw" ELSE "running"
  IN  /\ status = "running"
      /\ index >= 1
      /\ index <= Len(operators)
      /\ validOperator(operators[index])
      /\ assign(operators[index].v[1].key,
                pipelineOperators(operators[index].v[1].key, context, heap, collection,
                                  operators[index].v[1].val))
      /\ UNCHANGED <<input, pipeline, result, context, runs, cursorVars, registryVars>>

\* one iteration of the loop of run on anything else
InvalidOperator ==
  /\ status = "running"
  /\ index >= 1
  /\ index <= Len(operators)
  /\ ~validOperator(operators[index])
  /\ status' = "threw"
  /\ UNCHANGED <<heap, input, result, aggVars, cursorVars, registryVars>>

\* the end of the loop
Return ==
  /\ status = "running"
  /\ index >= 1
  /\ index > Len(operators)
  /\ status' = "returned"
  /\ result' = collection
  /\ UNCHANGED <<heap, input, aggVars, cursorVars, registryVars>>

\* the stages of the pipelines: one of each operator of the model, a key
\* that names no operator, and a stage of two keys
Stages ==
  { Stage("$match", Obj1("a", Obj1("$gt", Num(1)))),
    Stage("$project",
          Obj3("_id", Num(0), "a", Num(1), "t", Let(Obj1("x", Str("$a")), Str("$$x")))),
    Stage("$group", Obj2("_id", Str("$b"), "n", Obj1("$sum", Num(1)))),
    Stage("$sort", Obj1("a", Num(-1))),
    Stage("$unwind", Str("$tags")),
    Stage("$addFields", Obj1("c", Map(Str("$tags"), "x", Str("$$x")))),
    Stage("$redact",
          Obj1("$cond", Obj3("if", Obj1("$eq", Arr(<<Str("$a"), Num(1)>>)),
                             "then", Str("$$PRUNE"), "else", Str("$$KEEP")))),
    Stage("$replaceRoot", Obj1("newRoot", Str("$$CURRENT"))),
    Stage("$limit", Num(1)),
    Stage("$skip", Num(1)),
    Stage("$count", Str("n")),
    Stage("$foo", Num(1)),
    Obj2("$limit", Num(1), "$skip", Num(1)) }

Pipelines == UNION {[1..n -> Stages] : n \in 0..MaxStages}

Init == \E as \in HeapsUpTo(AggDocs), stages \in Pipelines : Start(HeapOf(as), stages, "none")
Next == RunOperator \/ InvalidOperator \/ Return
Spec == Init /\ [][Next]_vars

\* the runs whose stages are all valid
NextValid == RunOperator \/ Return

\* pipelines of one $sort or of the same $sort twice
SortSpecs ==
  { Obj1("a", Num(1)), Obj1("a", Num(-1)), Obj1("b", Num(1)), Obj1("b", Num(-1)),
    Obj1("c", Num(-1)), Obj2("a", Num(1), "b", Num(-1)), Obj2("b", Num(-1), "a", Num(-1)) }

InitSort ==
  \E as \in Heaps, sortKeys \in SortSpecs, twice \in BOOLEAN :
    Start(HeapOf(as),
          IF twice THEN <<Stage("$sort", sortKeys), Stage("$sort", sortKeys)>>
          ELSE <<Stage("$sort", sortKeys)>>,
          "none")
SpecSort == InitSort /\ [][NextValid]_vars

\* run called again on the aggregator, with the collection of the first call
RunAgain ==
  /\ status = "returned"
  /\ runs >= 1
  /\ runs < MaxRuns
  /\ runs' = runs + 1
  /\ collection' = RefsOf(heap)
  /\ index' = 1
  /\ status' = "running"
  /\ UNCHANGED <<heap, input, result, pipeline, operators, context, cursorVars, registryVars>>

\* pipelines that end in a $group, after a $match or alone: the group key is
\* a field all the documents have, a field some have, a field none has, an
\* array field, null, or not given
GroupKeys == {Str("$b"), Str("$a"), Str("$c"), Str("$tags"), Null}
GroupExpressions ==
  {Obj2("_id", idKey, "n", Obj1("$sum", Num(1))) : idKey \in GroupKeys}
    \cup {Obj2("n", Obj1("$sum", Num(1)), "_id", Str("$b")),
          Obj2("_id", Str("$a"), "bs", Obj1("$push", Str("$b"))),
          Obj1("n", Obj1("$sum", Num(1)))}
InitGroup ==
  \E as \in Heaps, expr \in GroupExpressions, matched \in BOOLEAN :
    Start(HeapOf(as),
          IF matched THEN <<Stage("$match", Obj1("a", Num(1))), Stage("$group", expr)>>
          ELSE <<Stage("$group", expr)>>,
          "none")
NextGroup == RunOperator \/ Return \/ RunAgain
SpecGroup == InitGroup /\ [][NextGroup]_vars

\* pipelines of two $skip stages; a negative number counts from the end of
\* the collection
SkipCounts == -1..MaxSkip
InitSkip ==
  \E as \in Heaps, i \in SkipCounts, j \in SkipCounts :
    Start(HeapOf(as), <<Stage("$skip", Num(i)), Stage("$skip", Num(j))>>, "none")
SpecSkip == InitSkip /\ [][NextValid]_vars

\* pipelines of two $match stages, or of one $match of the $and of the two
MatchCriteria ==
  { Obj(<<>>), Obj1("a", Num(1)), Obj1("a", Obj1("$gt", Num(1))), Obj1("b", Num(1)),
    Obj1("tags", Num(2)), Obj1("$or", Arr(<<Obj1("a", Num(1)), Obj1("b", Num(0))>>)),
    Obj1("a", Obj2("$gt", Num(1), "$foo", Num(1))) }

AndOf(c1, c2) == Obj1("$and", Arr(<<c1, c2>>))

InitMatch ==
  \E as \in Heaps, c1 \in MatchCriteria, c2 \in MatchCriteria, both \in BOOLEAN :
    Start(HeapOf(as),
          IF both THEN <<Stage("$match", AndOf(c1, c2))>>
          ELSE <<Stage("$match", c1), Stage("$match", c2)>>,
          "none")
SpecMatch == InitMatch /\ [][NextValid]_vars

\* pipelines of one $project
Projections ==
  { Obj1("a", Num(1)), Obj1("a", Num(0)), Obj1("a", Bool(FALSE)),
    Obj2("_id", Num(0), "a", Num(1)), Obj2("_id", Bool(FALSE), "a", Bool(TRUE)),
    Obj3("a", Num(1), "_id", Num(0), "b", Num(1)),
    Obj2("_id", Num(0), "a", Num(0)), Obj1("_id", Num(0)),
    Obj2("a", Num(1), "b", Num(0)), Obj2("a", Num(0), "b", Num(1)),
    Obj2("a", Bool(FALSE), "b", Num(1)), Obj2("a", Bool(TRUE), "b", Bool(FALSE)),
    Obj2("a", Num(0), "b", Str("$a")), Obj2("a", Num(1), "b", Str("$a")),
    Obj3("_id", Num(1), "a", Bool(FALSE), "b", Bool(TRUE)),
    Obj2("a", Num(0), "b", Bool(FALSE)), Obj2("a", Bool(FALSE), "b", Bool(FALSE)),
    Obj2("a", Num(0), "tags", Num(0)) }

InitProject ==
  \E as \in Heaps, expr \in Projections : Start(HeapOf(as), <<Stage("$project", expr)>>, "none")
SpecProject == InitProject /\ [][NextValid]_vars

\* expressions that read $$ROOT: alone, as an element of an array, as an
\* operand of $cond, and in the body of $map and of $let
RootExpressions ==
  { Str("$$ROOT"),
    Obj1("$cond", Arr(<<Bool(TRUE), Str("$$ROOT"), Num(0)>>)),
    Obj1("$cond", Arr(<<Bool(TRUE), Arr(<<Str("$$ROOT")>>), Num(0)>>)),
    Map(Str("$tags"), "x", Str("$$ROOT")),
    Let(Obj1("x", Str("$a")), Str("$$ROOT")) }

\* pipelines of one $project of one computed field; the documents hold a
\* key $x of their own or none
Expressions ==
  RootExpressions \cup
  { Map(Str("$tags"), "x", Str("$$x")),
    Map(Str("$a"), "x", Str("$$x")),
    Map(Arr(<<Str("$a"), Str("$b")>>), "x", Str("$$x")),
    Map(Map(Str("$tags"), "y", Str("$$y")), "x", Str("$$x")),
    Map(Str("$tags"), "x", Map(Str("$$x"), "y", Str("$$y"))),
    Map(Str("$tags"), "x", Let(Obj1("y", Str("$$x")), Str("$$y"))),
    Let(Obj1("x", Str("$a")), Str("$$x")),
    Let(Obj1("x", Str("$tags")), Map(Str("$$x"), "y", Str("$$y"))),
    Let(Obj2("x", Str("$a"), "y", Map(Str("$a"), "y", Str("$$y"))), Str("$$x")),
    Let(Obj1("x", Str("$a")), Map(Str("$$x"), "y", Str("$$y"))) }

InitExpr ==
  \E as \in Heaps, expr \in Expressions, bound \in BOOLEAN :
    Start([i \in DOMAIN as |->
             IF bound THEN SetKey(Doc(i, as[i]), "$x", Num(0)) ELSE Doc(i, as[i])],
          <<Stage("$project", Obj1("r", expr))>>, "none")
SpecExpr == InitExpr /\ [][NextValid]_vars

\* pipelines of one $project of one computed field whose expression is a map:
\* an operator key alone, an operator key before or after another key, and
\* maps without an operator key
OperatorMaps ==
  { Obj1("$cond", Arr(<<Bool(TRUE), Str("$a"), Num(0)>>)),
    Obj2("$cond", Arr(<<Bool(TRUE), Str("$a"), Num(0)>>), "a", Num(1)),
    Obj2("a", Num(1), "$cond", Arr(<<Bool(TRUE), Str("$a"), Num(0)>>)),
    Obj2("$literal", Num(1), "$cond", Arr(<<Bool(TRUE), Str("$a"), Num(0)>>)),
    Obj1("$sum", Str("$tags")),
    Obj2("$sum", Str("$tags"), "a", Num(1)),
    Obj2("a", Num(1), "$sum", Str("$tags")),
    Obj2("$map", Obj3("input", Str("$tags"), "as", Str("x"), "in", Str("$$x")), "a", Num(1)),
    Obj2("a", Str("$a"), "b", Obj1("$literal", Num(1))),
    Obj1("a", Str("$b")) }

InitOperator ==
  \E as \in Heaps, expr \in OperatorMaps :
    Start(HeapOf(as), <<Stage("$project", Obj1("r", expr))>>, "none")
SpecOperator == InitOperator /\ [][NextValid]_vars

\* pipelines of one $match whose criteria name a key $foo that is no query
\* operator, alone or next to $gt, or name registered operators only
QueryCriteria ==
  { Obj1("a", Obj1("$foo", Num(1))),
    Obj1("a", Obj2("$gt", Num(1), "$foo", Num(1))),
    Obj1("a", Obj2("$foo", Num(1), "$gt", Num(1))),
    Obj2("b", Num(1), "a", Obj1("$foo", Num(1))),
    Obj1("$and", Arr(<<Obj1("a", Obj1("$foo", Num(1)))>>)),
    Obj1("a", Obj1("$gt", Num(1))),
    Obj1("a", Obj2("$gt", Num(0), "$lt", Num(2))),
    Obj1("a", Obj1("c", Num(1))),
    Obj1("a", Num(1)) }

InitQuery ==
  \E as \in Heaps, crit \in QueryCriteria : Start(HeapOf(as), <<Stage("$match", crit)>>, "none")
SpecQuery == InitQuery /\ [][NextValid]_vars

\* pipelines of one $redact: every document kept, every document pruned, and
\* the documents pruned whose a is 1 or whose b is 1
Cond(ifExpr, thenExpr, elseExpr) ==
  Obj1("$cond", Obj3("if", ifExpr, "then", thenExpr, "else", elseExpr))
RedactExpressions ==
  { Str("$$KEEP"), Str("$$PRUNE"),
    Cond(Obj1("$eq", Arr(<<Str("$a"), Num(1)>>)), Str("$$PRUNE"), Str("$$KEEP")),
    Cond(Obj1("$eq", Arr(<<Str("$b"), Num(1)>>)), Str("$$PRUNE"), Str("$$KEEP")),
    Cond(Obj1("$eq", Arr(<<Str("$a"), Num(2)>>)), Str("$$KEEP"), Str("$$PRUNE")) }
InitRedact ==
  \E as \in Heaps, expr \in RedactExpressions :
    Start(HeapOf(as), <<Stage("$redact", expr)>>, "none")
SpecRedact == InitRedact /\ [][NextValid]_vars

\* pipelines of one $sortByCount, run without a query and with a query
CountedExpressions == {Str("$b"), Str("$a"), Str("$c"), Str("$tags"), Null}
InitSortByCount ==
  \E as \in Heaps, expr \in CountedExpressions, ctx \in {"none", "query"} :
    Start(HeapOf(as), <<Stage("$sortByCount", expr)>>, ctx)
SpecSortByCount == InitSortByCount /\ [][NextValid]_vars

\* pipelines of one $unwind of the field f, which is per document an empty
\* array, an array of one or of two elements, or a number
UnwoundValues == {Arr(<<>>), Arr(<<Num(3)>>), Arr(<<Num(1), Num(2)>>), Num(1)}
InitUnwind ==
  \E n \in 0..MaxDocs : \E fs \in [1..n -> UnwoundValues] :
    Start([i \in 1..n |-> SetKey(Doc(i, 1), "f", fs[i])], <<Stage("$unwind", Str("$f"))>>, "none")
SpecUnwind == InitUnwind /\ [][NextValid]_vars

\* pipelines of one $match with $in; the documents hold in f an embedded
\* document {k: a}
In(field, values) == Obj1(field, Obj1("$in", Arr(values)))
InCriteria ==
  { In("a", <<Num(1)>>), In("a", <<Num(1), Num(2)>>), In("tags", <<Num(2)>>), In("f", <<>>),
    In("f", <<Obj1("k", Num(1))>>), In("f", <<Obj1("k", Num(1)), Obj1("k", Num(2))>>),
    In("f", <<Num(1)>>) }
InitIn ==
  \E as \in Heaps, crit \in InCriteria :
    Start([i \in DOMAIN as |-> SetKey(Doc(i, as[i]), "f", Obj1("k", Num(as[i])))],
          <<Stage("$match", crit)>>, "none")
SpecIn == InitIn /\ [][NextValid]_vars

\* pipelines of one $project whose field s is a $slice of tags or of an
\* array of up to MaxSlice numbers, with one number or with a skip and a limit
SlicedArrays == {Str("$tags")} \cup {Arr([i \in 1..n |-> Num(i)]) : n \in 1..MaxSlice}
SliceNumbers == {Num(n) : n \in -(MaxSlice + 1)..(MaxSlice + 1)}
SliceArguments ==
  {<<xs, n>> : xs \in SlicedArrays, n \in SliceNumbers}
    \cup {<<xs, skip, limit>> : xs \in SlicedArrays, skip \in SliceNumbers,
                                limit \in {Num(-1), Num(0), Num(1), Num(2)}}
InitSlice ==
  \E as \in HeapsUpTo(1), args \in SliceArguments :
    Start(HeapOf(as), <<Stage("$project", Obj1("s", Obj1("$slice", Arr(args))))>>, "none")
SpecSlice == InitSlice /\ [][NextValid]_vars

\* pipelines of one $project whose field s is an arithmetic operator over
\* numbers, null, the missing field c, and the strings "x" and "2"
UnaryNumber ==
  [field \in {"$abs", "$ceil", "$exp", "$floor", "$ln", "$log10", "$sqrt", "$trunc"} |->
     CASE field = "$abs" -> Num(-2)
       [] field = "$exp" -> Num(0)
       [] field = "$ln" -> Num(1)
       [] field = "$log10" -> Num(10)
       [] field = "$sqrt" -> Num(4)
       [] OTHER -> Num(2)]
PairNumbers ==
  [field \in {"$add", "$divide", "$log", "$mod", "$multiply", "$pow", "$subtract"} |->
     IF field = "$log" THEN <<Num(100), Num(10)>> ELSE <<Num(4), Num(2)>>]
NoNumbers == {Null, Str("$c"), Str("x"), Str("2")}
ArithmeticExpressions ==
  {Obj1(field, x) : field \in DOMAIN UnaryNumber, x \in NoNumbers}
    \cup {Obj1(field, UnaryNumber[field]) : field \in DOMAIN UnaryNumber}
    \cup UNION {{Obj1(field, Arr(<<x, y>>)) : x \in NoNumbers \cup {PairNumbers[field][1]},
                                             y \in NoNumbers \cup {PairNumbers[field][2]}} :
                field \in DOMAIN PairNumbers}
InitArithmetic ==
  \E as \in HeapsUpTo(1), expr \in ArithmeticExpressions :
    Start(HeapOf(as), <<Stage("$project", Obj1("s", expr))>>, "none")
SpecArithmetic == InitArithmetic /\ [][NextValid]_vars

\* pipelines of one $group by the field f, which holds a number, an array
\* or an embedded document, some of them with the same keys in another
\* order; the group collects the _id of its documents
HashedValues ==
  { Num(1), Arr(<<Num(1), Num(2)>>), Obj1("k", Num(1)),
    Obj2("k", Num(1), "l", Num(2)), Obj2("l", Num(2), "k", Num(1)),
    Obj2("k", Num(2), "l", Num(1)),
    Obj1("k", Obj2("k", Num(1), "l", Num(2))), Obj1("k", Obj2("l", Num(2), "k", Num(1))) }
InitHash ==
  \E fs \in UNION {[1..n -> HashedValues] : n \in 0..AggDocs} :
    Start([i \in DOMAIN fs |-> SetKey(Doc(i, 1), "f", fs[i])],
          <<Stage("$group", Obj2("_id", Str("$f"), "ids", Obj1("$push", Str("$_id"))))>>,
          "none")
SpecHash == InitHash /\ [][NextValid]_vars

-----------------------------------------------------------------------------
(* Mingo.addOperators                                                      *)

\* a function value: the functions of the caller are numbered from 1
Fn(id) == [k |-> "function", v |-> id]

\* the characters of the operator names of the model
NameChars ==
  "$foo" :> <<"$", "f", "o", "o">> @@ "$sum" :> <<"$", "s", "u", "m">> @@
  "foo" :> <<"f", "o", "o">> @@ "$a.b" :> <<"$", "a", ".", "b">> @@ "$" :> <<"$">>

\* the characters \w matches
WordChars ==
  {"a", "b", "c", "d", "e", "f", "g", "h", "i", "j", "k", "l", "m", "n", "o", "p", "q",
   "r", "s", "t", "u", "v", "w", "x", "y", "z", "A", "B", "C", "D", "E", "F", "G", "H",
   "I", "J", "K", "L", "M", "N", "O", "P", "Q", "R", "S", "T", "U", "V", "W", "X", "Y",
   "Z", "0", "1", "2", "3", "4", "5", "6", "7", "8", "9", "_"}

\* /^\$\w+$/.test(op)
validName(op) ==
  LET chars == NameChars[op]
  IN  /\ Len(chars) >= 2
      /\ chars[1] = "$"
      /\ \A i \in 2..Len(chars) : chars[i] \in WordChars

\* the check for existing operators as it would be without its second assert
addOperatorsChecksNameOnly(names, newOperators, i) ==
  \A j \in i..Len(newOperators.v) : validName(newOperators.v[j].key)

\* the loop "check for existing operators" from entry i on: TRUE when no
\* assert fails; names is ops(opClass)
RECURSIVE addOperatorsChecks(_, _, _)
addOperatorsChecks(names, newOperators, i) ==
  IF i > Len(newOperators.v) THEN TRUE
  ELSE /\ validName(newOperators.v[i].key)
       /\ newOperators.v[i].key \notin names
       /\ addOperatorsChecks(names, newOperators, i + 1)

\* wrapped: under each name of newOperators a closure over its function and
\* over newOperators, the context the function is called with; the class
\* chooses the shape of the closure
wrapped(opClass, newOperators) ==
  [name \in {newOperators.v[i].key : i \in DOMAIN newOperators.v} |->
     [f |-> getValue(newOperators, name).v,
      wrap |-> IF opClass \in {OP_QUERY, OP_PROJECTION} THEN opClass ELSE "default",
      ctx |-> newOperators]]

\* Object.assign(OPERATORS[opClass], wrapped)
assignOperators(table, new) ==
  [name \in DOMAIN table \cup DOMAIN new |-> IF name \in DOMAIN new THEN new[name] ELSE table[name]]

\* Mingo.addOperators(opClass, fn), newOperators being what fn returns
AddOperators(opClass, newOperators) ==
  LET passes ==
        /\ opClass \in {OP_AGGREGATE, OP_GROUP, OP_PIPELINE, OP_PROJECTION, OP_QUERY}
        /\ addOperatorsChecks(DOMAIN operatorTables[opClass], newOperators, 1)
  IN  /\ status \in {"returned", "threw"}
      /\ Len(added) < MaxAdds
      /\ added' = Append(added, [opClass |-> opClass, newOperators |-> newOperators])
      /\ status' = IF passes THEN "returned" ELSE "threw"
      /\ result' = Undefined
      /\ operatorTables' =
           IF passes
           THEN [operatorTables EXCEPT ![opClass] = assignOperators(@, wrapped(opClass, newOperators))]
           ELSE operatorTables
      /\ UNCHANGED <<heap, input, aggVars, cursorVars>>

\* the classes and the operators the calls pass: names that are new, a name
\* the group class has, and names the pattern rejects
AddedClasses == {OP_AGGREGATE, OP_GROUP, OP_PIPELINE, OP_PROJECTION, OP_QUERY, "nope"}
AddedOperators ==
  { Obj1("$foo", Fn(1)), Obj1("$foo", Fn(2)), Obj1("$sum", Fn(1)),
    Obj2("$foo", Fn(2), "$sum", Fn(1)), Obj2("$foo", Fn(1), "foo", Fn(2)),
    Obj2("$foo", Fn(1), "$a.b", Fn(2)), Obj2("$sum", Fn(2), "$", Fn(1)) }

InitAddOperators ==
  /\ heap = <<>>
  /\ input = <<>>
  /\ status = "returned"
  /\ result = Undefined
  /\ NoAggregator
  /\ NoCursor
  /\ NoAddOperators
NextAddOperators ==
  \E opClass \in AddedClasses, newOperators \in AddedOperators :
    AddOperators(opClass, newOperators)
SpecAddOperators == InitAddOperators /\ [][NextAddOperators]_vars

-----------------------------------------------------------------------------
(* Cursor, one call at a time                                              *)

\* what a chainable call returns: the cursor itself
This == [k |-> "cursor", v |-> 0]

\* the state after query.find(docs, proj), query being new Query(crit)
StartCursor(docs, crit, proj) ==
  /\ heap = docs
  /\ input = docs
  /\ status = "returned"
  /\ result = This
  /\ criteria = crit
  /\ projection = proj
  /\ cursorOperators = Obj(<<>>)
  /\ cursorResult = Bool(FALSE)
  /\ position = 0
  /\ calls = <<>>
  /\ NoAggregator
  /\ NoAddOperators

\* skip(n), limit(n) and sort(modifier): Object.assign(this._operators, {op: arg})
Modify(op, arg) ==
  /\ cursorOperators' = SetKey(cursorOperators, op, arg)
  /\ calls' = Append(calls, [op |-> op, arg |-> arg, fetched |-> cursorResult # Bool(FALSE)])
  /\ status' = "returned"
  /\ result' = This
  /\ UNCHANGED <<heap, input, aggVars, criteria, projection, cursorResult, position,
                 registryVars>>

SkipArgs == {Num(1)}
LimitArgs == {Num(1)}
SortArgs == {Obj1("a", Num(-1))}

Skip == Len(calls) < MaxCalls /\ \E n \in SkipArgs : Modify("$skip", n)
Limit == Len(calls) < MaxCalls /\ \E n \in LimitArgs : Modify("$limit", n)
Sort == Len(calls) < MaxCalls /\ \E modifier \in SortArgs : Modify("$sort", modifier)

\* a call that begins with this._fetch(): the fields as _fetch leaves them,
\* and the value the call returns when _fetch has not thrown
Fetching(returns(_), advance) ==
  LET assign(f) ==
        /\ heap' = f.heap
        /\ cursorOperators' = f.operators
        /\ cursorResult' = f.result
        /\ status' = IF f.err THEN "threw" ELSE "returned"
        /\ result' = IF f.err THEN Undefined ELSE returns(f.result)
        /\ position' = IF ~f.err /\ advance /\ Len(f.result.v) > position
                       THEN position + 1 ELSE position
  IN  /\ assign(fetch(heap, RefsOf(input), criteria, projection, cursorOperators, cursorResult))
      /\ UNCHANGED <<input, aggVars, criteria, projection, calls, registryVars>>

returnsAll(fetched) == fetched
returnsCount(fetched) == lengthOf(fetched)
returnsFirst(fetched) == IF Len(fetched.v) > 0 THEN elementAt(fetched, 0) ELSE Null
returnsLast(fetched) == IF Len(fetched.v) > 0 THEN elementAt(fetched, Len(fetched.v) - 1) ELSE Null
returnsHasNext(fetched) == Bool(Len(fetched.v) > position)
returnsNextAfter(fetched) ==
  IF Len(fetched.v) > position THEN elementAt(fetched, position + 1) ELSE Null
returnsNext(fetched) == IF Len(fetched.v) > position THEN elementAt(fetched, position) ELSE Null

All == Fetching(returnsAll, FALSE)
Count == Fetching(returnsCount, FALSE)
First == Fetching(returnsFirst, FALSE)
Last == Fetching(returnsLast, FALSE)
HasNext == Fetching(returnsHasNext, FALSE)
NextDocument == Fetching(returnsNext, TRUE)

CursorCriteria == {Obj(<<>>), Obj1("a", Num(1)), Obj1("a", Obj1("$gt", Num(1)))}
CursorProjections == {Undefined, Obj1("a", Num(1)), Obj2("a", Num(1), "b", Num(0))}

InitCursor ==
  \E as \in HeapsUpTo(CursorDocs), crit \in CursorCriteria, proj \in CursorProjections :
    StartCursor(HeapOf(as), crit, proj)
NextCursor ==
  \/ Skip \/ Limit \/ Sort
  \/ All \/ Count \/ First \/ Last \/ HasNext \/ NextDocument
SpecCursor == InitCursor /\ [][NextCursor]_vars

-----------------------------------------------------------------------------
(* The cursor's pipeline                                                   *)

\* TRUE when op was called before the first materializing call
C1_Set(op) == \E i \in DOMAIN calls : calls[i].op = op /\ ~calls[i].fetched

\* the argument of the last call of op before the first materializing call
C1_Arg(op) ==
  calls[CHOOSE i \in DOMAIN calls :
          /\ calls[i].op = op /\ ~calls[i].fetched
          /\ \A j \in (i + 1)..Len(calls) : ~(calls[j].op = op /\ ~calls[j].fetched)].arg

\* the stage key applied to the outcome r of the stages before it, when set
C1_Apply(key, set, arg, r) ==
  IF r.err \/ ~set THEN r ELSE pipelineOperators(key, "query", r.heap, r.coll, arg)

\* the documents of the input that pass the test of the query, in their order
C1_Filtered ==
  SR(input,
     Arr(FilterSeq(RefsOf(input).v,
                   [i \in DOMAIN input |-> QueryTest(Query(criteria).compiled, input[i]) = "T"])),
     Undefined)

\* filter, then $sort, $skip, $limit and $project, each when it was set
C1_Expected ==
  C1_Apply("$project", isObject(projection), projection,
    C1_Apply("$limit", C1_Set("$limit"), C1_Arg("$limit"),
      C1_Apply("$skip", C1_Set("$skip"), C1_Arg("$skip"),
        C1_Apply("$sort", C1_Set("$sort"), C1_Arg("$sort"), C1_Filtered))))

C2_TestIsCountOne ==
  (status = "returned" /\ isNumber(result) /\ Len(input) = 1 /\ calls = <<>>
     /\ projection = Undefined)
    => /\ result = Num(1) <=> QueryTest(Query(criteria).compiled, input[1]) = "T"
       /\ result = Num(0) <=> QueryTest(Query(criteria).compiled, input[1]) = "F"

\* C2 witness: count() has returned 0 for a single document that a criteria
\* with an operator rejects
C2_Witness ==
  /\ status = "returned"
  /\ result = Num(0)
  /\ Len(input) = 1
  /\ calls = <<>>
  /\ projection = Undefined
  /\ criteria = Obj1("a", Obj1("$gt", Num(1)))
  /\ has(input[1], "a")

-----------------------------------------------------------------------------
(* $match                                                                  *)

\* the run of the one stage {$match: {$and: [C1, C2]}} on the input
C3_And ==
  run("none", input, RefsOf(input),
      <<Stage("$match", AndOf(pipeline[1].v[1].val, pipeline[2].v[1].val))>>)

\* find(collection).all() on a new Query(criteria)
C3_Find(crit) == fetch(input, RefsOf(input), crit, Undefined, Obj(<<>>), Bool(FALSE))

\* C3: the pipeline of $match C1 then $match C2 returns the documents, in
\* the order, that the single $match of {$and: [C1, C2]} returns, and raises
\* when that raises; and a $match stage leaves what find(collection).all()
\* returns for its criteria, raising when the query cannot be built
C3_MatchComposes ==
  /\ (Len(pipeline) = 2 /\ status = "returned")
       => (~C3_And.err /\ Contents(heap, result) = Contents(C3_And.heap, C3_And.coll))
  /\ (Len(pipeline) = 2 /\ status = "threw") => C3_And.err
  /\ (index = 2 /\ status # "threw")
       => /\ ~C3_Find(pipeline[1].v[1].val).err
          /\ collection = C3_Find(pipeline[1].v[1].val).result
  /\ (index = 1 /\ status = "threw") => Query(pipeline[1].v[1].val).err

\* C3 witness: two $match stages have returned one of three documents, the
\* only one that passes both criteria
C3_Witness ==
  /\ status = "returned"
  /\ pipeline = <<Stage("$match", Obj1("a", Obj1("$gt", Num(1)))),
                  Stage("$match", Obj1("b", Num(1)))>>
  /\ Len(input) = 3
  /\ Len(result.v) = 1

-----------------------------------------------------------------------------
(* $sort                                                                   *)

\* TRUE when x and y resolve to equal values for every key of sortKeys
C4_EqualKeys(sortKeys, x, y) ==
  \A i \in DOMAIN sortKeys.v : resolve(x, sortKeys.v[i].key) = resolve(y, sortKeys.v[i].key)

\* C4: after $sort, ascending or descending, two documents that resolve to
\* equal values for every sort key stand in the order they had in the input
C4_SortIsStable ==
  (status # "threw" /\ index > 1)
    => \A p, q \in DOMAIN collection.v :
         (p < q /\ C4_EqualKeys(pipeline[1].v[1].val,
                                Deref(heap, collection.v[p]), Deref(heap, collection.v[q])))
           => collection.v[p].v < collection.v[q].v

\* C4 witness: a descending sort has moved the third document to the front
\* and left the first two, equal on the sort key, in their order
C4_Witness ==
  /\ status = "returned"
  /\ pipeline = <<Stage("$sort", Obj1("a", Num(-1)))>>
  /\ result = Arr(<<Ref(3), Ref(1), Ref(2)>>)
  /\ resolve(input[1], "a") = resolve(input[2], "a")

\* C5: the second of two $sort stages of the same specification leaves the
\* collection as the first one left it
C5_SortIsIdempotent ==
  [][(Len(pipeline) = 2 /\ pipeline[1] = pipeline[2] /\ index = 2 /\ index' = 3)
       => collection' = collection]_vars

\* C5 witness: two $sort stages of one specification of two keys have
\* returned the three documents in another order than the input
C5_Witness ==
  /\ status = "returned"
  /\ Len(pipeline) = 2
  /\ pipeline[1] = Stage("$sort", Obj2("b", Num(-1), "a", Num(-1)))
  /\ Len(result.v) = 3
  /\ result # RefsOf(input)

-----------------------------------------------------------------------------
(* Aggregator.run                                                          *)

\* C6: the value a stage returns without raising, which the next stage
\* receives and run returns, is an array of documents
C6_StagesReturnDocuments ==
  (status # "threw" /\ index > 1)
    => /\ isArray(collection)
       /\ \A i \in DOMAIN collection.v : isObject(Deref(heap, collection.v[i]))

\* the outcome of the first n stages of the pipeline, applied in order, each
\* to the collection the one before it returned
RECURSIVE C7_Prefix(_)
C7_Prefix(n) ==
  LET stage(before) ==
        pipelineOperators(pipeline[n].v[1].key, context, before.heap, before.coll,
                          pipeline[n].v[1].val)
  IN  IF n = 0 THEN SR(input, RefsOf(input), Undefined)
      ELSE CHOOSE after \in {stage(before) : before \in {C7_Prefix(n - 1)}} : TRUE

\* a valid stage: a map of exactly one key, which names a pipeline operator
C7_Valid(stage) ==
  /\ isObject(stage)
  /\ Len(stage.v) = 1
  /\ stage.v[1].key \in
       {"$addFields", "$group", "$match", "$project", "$limit", "$skip", "$unwind",
        "$sort", "$sortByCount", "$sample", "$count", "$replaceRoot", "$redact"}

\* C7: run has applied the stages before index in pipeline order, each to the
\* output of the one before; it returns only when every stage is valid, and
\* what it returns is the output of the last stage; when it raises, at an
\* invalid stage or elsewhere, it returns nothing
C7_RunInOrder ==
  /\ status # "threw"
       => \A done \in {C7_Prefix(index - 1)} :
            ~done.err /\ collection = done.coll /\ heap = done.heap
  /\ status = "returned"
       => /\ \A i \in DOMAIN pipeline : C7_Valid(pipeline[i])
          /\ index = Len(pipeline) + 1
          /\ result = collection
  /\ status # "returned" => result = Undefined
  /\ (status = "running" /\ index <= Len(pipeline) /\ ~C7_Valid(pipeline[index]))
       => (ENABLED InvalidOperator /\ ~ENABLED RunOperator /\ ~ENABLED Return)

\* C7 witness: run has raised at an invalid second stage, after a first stage
\* that had changed the collection, and has returned nothing
C7_Witness ==
  /\ status = "threw"
  /\ index = 2
  /\ ~C7_Valid(pipeline[2])
  /\ collection # RefsOf(input)
  /\ Len(input) = 2
  /\ result = Undefined

\* the stages whose runs are said to leave the input as it was
C9_Stages ==
  {"$match", "$project", "$group", "$sort", "$unwind", "$addFields", "$redact",
   "$replaceRoot", "$limit", "$skip"}

\* C9: after a run of such stages that returns, every document of the input
\* is equal to what it was
C9_InputUnchanged ==
  (status = "returned" /\ \A i \in DOMAIN pipeline : pipeline[i].v[1].key \in C9_Stages)
    => heap = input

\* C9 witness: $addFields with a $map and $project with a $let have run on
\* two documents and returned other documents than the input
C9_Witness ==
  /\ status = "returned"
  /\ Len(pipeline) = 2
  /\ pipeline[1].v[1].key = "$addFields"
  /\ pipeline[2].v[1].key = "$project"
  /\ Len(input) = 2
  /\ Len(result.v) = 2
  /\ Contents(heap, result) # Contents(input, RefsOf(input))

-----------------------------------------------------------------------------
(* $map and $let                                                           *)

\* the keys $map and $let bind in the expressions of the model
C8_TempKeys == {"$x", "$y"}

\* C8: after $map or $let has returned or raised, each key it bound on the
\* document holds the value it had, or is absent if it was absent
C8_BindingsRestored ==
  index >= 1 =>
    \A i \in DOMAIN heap : \A key \in C8_TempKeys :
      /\ has(heap[i], key) = has(input[i], key)
      /\ getValue(heap[i], key) = getValue(input[i], key)

-----------------------------------------------------------------------------
(* $project                                                                *)

\* TRUE when value is an exclusion
C10_Excludes(value) == value = Num(0) \/ value = Bool(FALSE)

\* TRUE when, among the keys other than _id, one is an exclusion and one is
\* not
C10_Mixes(expr) ==
  /\ \E i \in DOMAIN expr.v : expr.v[i].key # settings.key /\ C10_Excludes(expr.v[i].val)
  /\ \E i \in DOMAIN expr.v : expr.v[i].key # settings.key /\ ~C10_Excludes(expr.v[i].val)

\* TRUE when _id is excluded and every other key is an inclusion
C10_OnlyIdExcluded(expr) ==
  /\ \E i \in DOMAIN expr.v : expr.v[i].key = settings.key /\ C10_Excludes(expr.v[i].val)
  /\ \E i \in DOMAIN expr.v : expr.v[i].key # settings.key
  /\ \A i \in DOMAIN expr.v :
       expr.v[i].key # settings.key => expr.v[i].val \in {Num(1), Bool(TRUE)}

\* C10: a $project that mixes exclusions and other keys, _id apart, never
\* gets past its validation, whatever the collection holds, and raises
\* without touching a document; a $project that excludes _id and includes
\* the other keys does not raise
C10_ProjectValidates ==
  /\ C10_Mixes(pipeline[1].v[1].val)
       => /\ index = 1
          /\ status # "returned"
          /\ heap = input
          /\ status = "running"
               => pipelineOperators("$project", context, heap, collection,
                                    pipeline[1].v[1].val).err
  /\ C10_OnlyIdExcluded(pipeline[1].v[1].val) => status # "threw"

\* C10 witness: $project has raised on an empty collection for a projection
\* that excludes one key with false and includes another
C10_Witness ==
  /\ status = "threw"
  /\ Len(input) = 0
  /\ pipeline = <<Stage("$project", Obj2("a", Bool(FALSE), "b", Num(1)))>>

-----------------------------------------------------------------------------
(* computeValue on maps with operator keys                                 *)

\* the entries of a map whose key names an operator of expressions
C11_OperatorKeys(expr) ==
  {i \in DOMAIN expr.v : expr.v[i].key \in ops(OP_AGGREGATE) \cup ops(OP_GROUP)}

\* the value $project has computed for field r of the first document
C11_Computed == getValue(Deref(heap, result.v[1]), "r")

\* C11: a map with an operator key and another key, in either order, makes
\* computeValue raise; a map of one operator key evaluates to the result of
\* the operator, not to a record under that key
C11_OneOperatorKey ==
  LET expr == pipeline[1].v[1].val.v[1].val
  IN  (status = "returned" /\ Len(input) > 0 /\ C11_OperatorKeys(expr) # {})
        => /\ Len(expr.v) = 1
           /\ ~(isObject(C11_Computed) /\ has(C11_Computed, expr.v[1].key))

-----------------------------------------------------------------------------
(* Query                                                                   *)

\* the keys of the model's criteria that begin with $
C12_DollarKeys == {"$foo"} \cup UNION {OPERATORS[t] : t \in DOMAIN OPERATORS}

\* TRUE when a predicate map of the criteria, nested criteria included, holds
\* a key that begins with $ and names no query operator
RECURSIVE C12_Unknown(_)
C12_Unknown(crit) ==
  \E i \in DOMAIN crit.v :
    \/ /\ crit.v[i].key \in {"$and", "$or", "$nor"}
       /\ isArray(crit.v[i].val)
       /\ \E j \in DOMAIN crit.v[i].val.v : C12_Unknown(crit.v[i].val.v[j])
    \/ /\ crit.v[i].key \notin {"$and", "$or", "$nor"}
       /\ isObject(crit.v[i].val)
       /\ \E j \in DOMAIN crit.v[i].val.v :
            crit.v[i].val.v[j].key \in C12_DollarKeys \ ops(OP_QUERY)

\* C12: criteria with a $ key that names no query operator, alone in its
\* predicate map or next to query operators, make the construction of the
\* Query raise: a $match of such criteria never returns
C12_UnknownOperatorRaises ==
  C12_Unknown(pipeline[1].v[1].val) => status # "returned"

-----------------------------------------------------------------------------
\* the names of the calls that match ^\$\w+$
C13_WellFormed == {"$foo", "$sum"}
C13_Last == added[Len(added)]
C13_Names(call) == {call.newOperators.v[i].key : i \in DOMAIN call.newOperators.v}

\* C13: a call of addOperators raises when its class is not one of the five
\* classes, or when one of its names does not match ^\$\w+$ or is already in
\* the table of its class; a call that raises changes no operator table; and
\* no call replaces or removes a handler registered under a class and a name
C13_AllOrNothing ==
  [][ LET call == added'[Len(added')]
          rejected ==
            \/ call.opClass \notin {"aggregate", "group", "pipeline", "projection", "query"}
            \/ \E name \in C13_Names(call) :
                 \/ name \notin C13_WellFormed
                 \/ name \in DOMAIN operatorTables[call.opClass]
      IN  /\ rejected => status' = "threw"
          /\ status' = "threw" => operatorTables' = operatorTables
          /\ \A t \in DOMAIN operatorTables : \A name \in DOMAIN operatorTables[t] :
               /\ name \in DOMAIN operatorTables'[t]
               /\ operatorTables'[t][name] = operatorTables[t][name] ]_vars

\* C13 witness: after a call that registered $foo, a call for the same class
\* that brings another function for $foo has raised, and the first handler is
\* still the one in the table
C13_Witness ==
  /\ Len(added) >= 2
  /\ status = "threw"
  /\ C13_Last.opClass \in DOMAIN operatorTables
  /\ "$foo" \in C13_Names(C13_Last)
  /\ "$foo" \in DOMAIN operatorTables[C13_Last.opClass]
  /\ operatorTables[C13_Last.opClass]["$foo"].f \notin {0, getValue(C13_Last.newOperators, "$foo").v}

-----------------------------------------------------------------------------
\* the expression of the field r the $project of the run computes
C14_Expr == getValue(pipeline[1].v[1].val, "r")
C14_IsIdentityMap ==
  /\ isObject(C14_Expr)
  /\ keys(C14_Expr) = <<"$map">>
  /\ getValue(getValue(C14_Expr, "$map"), "as") = Str("x")
  /\ getValue(getValue(C14_Expr, "$map"), "in") = Str("$$x")

\* C14: when the input expression of {$map: {input, as: 'x', in: '$$x'}}
\* evaluates on a document to an array, the $map evaluates on that document to
\* an equal array, whether or not the document has a key $x
C14_MapIdentity ==
  LET evaluated(i) ==
        computeValue(input[i], getValue(getValue(C14_Expr, "$map"), "input"), Null, NoOpt)
  IN  C14_IsIdentityMap =>
        /\ status = "threw" =>
             \E i \in DOMAIN input : \E A \in {evaluated(i)} : A.err \/ ~isArray(A.val)
        /\ status = "returned" =>
             \A i \in DOMAIN input : \A A \in {evaluated(i)} :
               (~A.err /\ isArray(A.val)) => getValue(Deref(heap, result.v[i]), "r") = A.val

\* C14 witness: an identity $map over a field has returned a non-empty array
\* for a document that has a key $x of its own
C14_Witness ==
  /\ status = "returned"
  /\ C14_IsIdentityMap
  /\ \E i \in DOMAIN input :
       /\ has(input[i], "$x")
       /\ isArray(getValue(Deref(heap, result.v[i]), "r"))
       /\ Len(getValue(Deref(heap, result.v[i]), "r").v) = 2

-----------------------------------------------------------------------------
\* the two numbers of the $skip stages of the run, and what one $skip of
\* their sum returns for the collection of the run
C15_I == pipeline[1].v[1].val.v
C15_J == pipeline[2].v[1].val.v
C15_SkipSum == run("none", input, RefsOf(input), <<Stage("$skip", Num(C15_I + C15_J))>>)

-----------------------------------------------------------------------------
\* the expression of the $group stage as the aggregator holds it now, what
\* the first run returns, and the documents that reach the $group stage
C16_GroupExpr == operators[Len(operators)].v[1].val
C16_First == run("none", input, RefsOf(input), pipeline).coll
C16_Reaching ==
  IF Len(pipeline) = 2 THEN run("none", input, RefsOf(input), <<pipeline[1]>>).coll
  ELSE RefsOf(input)

\* C16 as stated: after a run the expression of a $group stage that was
\* given an identity key has none, and the second run returns a single group without identity
\* field, which is not what the first run returned
C16_SecondRunDiffers ==
  (status = "returned" /\ has(pipeline[Len(pipeline)].v[1].val, "_id")) =>
    /\ ~has(C16_GroupExpr, "_id")
    /\ runs = 2 =>
         /\ result # C16_First
         /\ Len(result.v) = 1
         /\ ~has(result.v[1], "_id")

\* C16: after a run the expression of the $group stage has no identity key;
\* a later run returns a single group without identity field when a document
\* reaches the $group stage and no group when none does, and what it returns
\* differs from what the first run returned exactly when a group of the first
\* run has an identity field
C16_SecondRunUngrouped ==
  status = "returned" =>
    /\ ~has(C16_GroupExpr, "_id")
    /\ runs >= 2 =>
         \A first \in {C16_First} :
           /\ Len(C16_Reaching.v) > 0 => Len(result.v) = 1 /\ ~has(result.v[1], "_id")
           /\ Len(C16_Reaching.v) = 0 => result = Arr(<<>>)
           /\ result # first <=> \E i \in DOMAIN first.v : has(first.v[i], "_id")

\* C16 witness: the second run has returned one group without identity field
\* where the first run returned two groups
C16_Witness ==
  /\ status = "returned"
  /\ runs = 2
  /\ Len(C16_First.v) = 2
  /\ Len(result.v) = 1
  /\ ~has(result.v[1], "_id")

-----------------------------------------------------------------------------
\* the identity expression of the $group stage of the run, the partition key
\* of each document that reaches the stage, and the documents whose key no
\* earlier document has
C17_Expr == pipeline[Len(pipeline)].v[1].val
C17_IdKey == getValue(C17_Expr, "_id")
C17_Keys ==
  [i \in DOMAIN C16_Reaching.v |->
     computeValue(Deref(input, C16_Reaching.v[i]), C17_IdKey, C17_IdKey, NoOpt).val]
C17_Same(ks, i, j) == hashcode(ks[i]) = hashcode(ks[j])
C17_Firsts(ks) == {i \in DOMAIN ks : \A j \in 1..(i - 1) : ~C17_Same(ks, i, j)}
C17_Rank(ks, i) == Cardinality({j \in C17_Firsts(ks) : j <= i})

\* C17: the first run of a $group returns one document per distinct hashcode
\* of the partition keys, in the order in which the keys first occur; the
\* document has the identity field equal to the key, or no identity field when
\* the key is undefined; and with n: {$sum: 1} its n is the number of
\* documents with that key, so that the n add up to the number of documents
C17_GroupPartitions ==
  (status = "returned" /\ runs = 1) =>
    \A ks \in {C17_Keys} :
      /\ Len(result.v) = Cardinality(C17_Firsts(ks))
      /\ \A i \in C17_Firsts(ks) :
           \A out \in {result.v[C17_Rank(ks, i)]} :
             /\ getValue(out, "_id") = ks[i]
             /\ has(out, "_id") <=> ~isUndefined(ks[i])
             /\ has(C17_Expr, "n") =>
                  getValue(out, "n") = Num(Cardinality({j \in DOMAIN ks : C17_Same(ks, i, j)}))

\* C17 witness: three documents have been grouped into two documents, the
\* first for the key of the first and third document and the second without
\* identity field
C17_Witness ==
  /\ status = "returned"
  /\ runs = 1
  /\ Len(input) = 3
  /\ Len(result.v) = 2
  /\ getValue(result.v[1], "n") = Num(2)
  /\ C17_Keys[1] = C17_Keys[3]
  /\ has(result.v[1], "_id")
  /\ ~has(result.v[2], "_id")

-----------------------------------------------------------------------------
\* TRUE unless u and v are numbers that the direction puts the other way round
C18_InOrder(direction, u, v) ==
  (isNumber(u) /\ isNumber(v)) =>
    /\ direction = Num(1) => u.v <= v.v
    /\ direction = Num(-1) => u.v >= v.v

\* C18: after $sort the documents are those of the input, and of two of them
\* the earlier one is not after the later one under the first key of the
\* specification, in the direction of that key, for which they resolve to
\* different values
C18_SortIsLexicographic ==
  status = "returned" =>
    \A sortKeys \in {pipeline[1].v[1].val} :
      /\ Len(result.v) = Len(input)
      /\ {result.v[p] : p \in DOMAIN result.v} = {Ref(i) : i \in DOMAIN input}
      /\ \A p, q \in DOMAIN result.v :
           p < q =>
             \A x \in {Deref(heap, result.v[p])} : \A y \in {Deref(heap, result.v[q])} :
               \A m \in DOMAIN sortKeys.v :
                 (\A l \in 1..(m - 1) :
                    resolve(x, sortKeys.v[l].key) = resolve(y, sortKeys.v[l].key))
                   => C18_InOrder(sortKeys.v[m].val, resolve(x, sortKeys.v[m].key),
                                  resolve(y, sortKeys.v[m].key))

\* C18 witness: a sort by b descending, then a descending, has put the second
\* document last for its b although its a is the greatest, and the third
\* before the first, equal on b, for its a
C18_Witness ==
  /\ status = "returned"
  /\ pipeline = <<Stage("$sort", Obj2("b", Num(-1), "a", Num(-1)))>>
  /\ Len(input) = 3
  /\ resolve(input[1], "a") = Num(1)
  /\ resolve(input[2], "a") = Num(2)
  /\ resolve(input[3], "a") = Num(2)
  /\ result = Arr(<<Ref(3), Ref(1), Ref(2)>>)

-----------------------------------------------------------------------------
\* the values $$ROOT evaluated to for document i of a run of RootExpressions:
\* the computed field, or its elements when the expression builds an array
C19_Roots(i) ==
  LET r == getValue(Deref(heap, result.v[i]), "r")
  IN  IF isArray(r) THEN {r.v[j] : j \in DOMAIN r.v} ELSE {r}

\* C19: wherever $$ROOT stands in the expression, alone, in an array, as an
\* operand or in the body of $map or $let, it evaluates to a value equal to
\* the document the expression is computed for
C19_RootIsDocument ==
  (status = "returned" /\ getValue(pipeline[1].v[1].val, "r") \in RootExpressions) =>
    \A i \in DOMAIN input : \A root \in C19_Roots(i) : root = input[i]

-----------------------------------------------------------------------------
\* TRUE when every key of the projection is an exclusion, written 0 or false
C20_ExclusionsOnly(expr) ==
  \A i \in DOMAIN expr.v : expr.v[i].val \in {Num(0), Bool(FALSE)}

\* the document without the keys the projection lists
C20_Without(doc, expr) ==
  Obj(FilterSeq(doc.v, [j \in DOMAIN doc.v |-> ~has(expr, doc.v[j].key)]))

\* C20: a $project whose keys are all exclusions, written 0 or false, returns
\* for each document the document without the listed keys and with every
\* other field
C20_ExclusionsClone ==
  (status = "returned" /\ C20_ExclusionsOnly(pipeline[1].v[1].val)) =>
    /\ Len(result.v) = Len(input)
    /\ \A i \in DOMAIN input :
         Deref(heap, result.v[i]) = C20_Without(input[i], pipeline[1].v[1].val)

-----------------------------------------------------------------------------
\* what the expression of the $redact stage of the run evaluates to for
\* document i, and the documents it does not prune
C21_Verdict(i) == computeValue(input[i], pipeline[1].v[1].val, Null, NoOpt).val
C21_NotPruned == {i \in DOMAIN input : C21_Verdict(i) # Str("$$PRUNE")}

\* C21: $redact returns documents only, as many as the expression does not
\* prune, and a document the expression keeps stands in the output, equal to
\* the input document, after the documents not pruned before it
C21_RedactDrops ==
  status = "returned" =>
    /\ isArray(result)
    /\ \A j \in DOMAIN result.v : isObject(result.v[j])
    /\ Len(result.v) = Cardinality(C21_NotPruned)
    /\ \A i \in C21_NotPruned :
         C21_Verdict(i) = Str("$$KEEP") =>
           result.v[Cardinality({j \in C21_NotPruned : j <= i})] = input[i]

-----------------------------------------------------------------------------
\* what the stages $group by the expression of the $sortByCount stage of the
\* run, with count: {$sum: 1}, and $sort by count descending return
C22_GroupThenSort ==
  run(context, input, RefsOf(input),
      <<Stage("$group", Obj2("_id", pipeline[1].v[1].val, "count", Obj1("$sum", Num(1)))),
        Stage("$sort", Obj1("count", Num(-1)))>>)

\* C22: with and without a query, the stage $sortByCount returns what $group
\* with count: {$sum: 1} followed by $sort by count descending returns
C22_SortByCountIsSugar ==
  \A two \in {C22_GroupThenSort} :
    ~two.err =>
      /\ status # "threw"
      /\ status = "returned" => result = two.coll

-----------------------------------------------------------------------------
\* the documents $unwind of f owes for document i: one per element of its f,
\* the document with f replaced by the element
C23_Unwound(i) ==
  [j \in DOMAIN getValue(input[i], "f").v |-> SetKey(input[i], "f", getValue(input[i], "f").v[j])]
C23_AllArrays == \A i \in DOMAIN input : isArray(getValue(input[i], "f"))

\* C23: $unwind of f returns, document after document, one document per
\* element of f in the order of the elements, the document with f replaced by
\* the element; when the f of a document is not an array it raises and
\* returns nothing
C23_UnwindEmitsElements ==
  /\ status = "returned" =>
       /\ C23_AllArrays
       /\ result = Arr(Flatten([i \in DOMAIN input |-> C23_Unwound(i)]))
  /\ status = "threw" => ~C23_AllArrays /\ result = Undefined
  /\ ~C23_AllArrays => status # "returned"

\* C23 witness: three documents whose f has two elements, none and one have
\* been unwound into three documents
C23_Witness ==
  /\ status = "returned"
  /\ Len(input) = 3
  /\ C23_AllArrays
  /\ Len(getValue(input[1], "f").v) = 2
  /\ Len(getValue(input[2], "f").v) = 0
  /\ Len(getValue(input[3], "f").v) = 1
  /\ Len(result.v) = 3
  /\ getValue(result.v[2], "f") = Num(2)
  /\ getValue(result.v[3], "_id") = Num(3)

-----------------------------------------------------------------------------
\* the field and the values of the $in of the run, and the documents one of
\* whose values under the field has the hashcode of one of the values
C24_Field == pipeline[1].v[1].val.v[1].key
C24_Values == pipeline[1].v[1].val.v[1].val.v[1].val.v
C24_Matched ==
  {i \in DOMAIN input :
     \E x \in {coerceArray(resolve(input[i], C24_Field))[j] :
                 j \in DOMAIN coerceArray(resolve(input[i], C24_Field))} :
       \E j \in DOMAIN C24_Values : hashcode(x) = hashcode(C24_Values[j])}

\* C24: $in matches by hashcode: $match with {field: {$in: values}} returns
\* the documents one of whose values under the field has the hashcode of one
\* of the values, an embedded document thus matching a value that is
\* structurally the same
C24_InMatchesByValue ==
  status = "returned" =>
    {result.v[j] : j \in DOMAIN result.v} = {Ref(i) : i \in C24_Matched}

-----------------------------------------------------------------------------
\* the arguments of the $slice of the run, the array sliced for document i,
\* and elements from + 1 .. to of it
C25_Args == pipeline[1].v[1].val.v[1].val.v[1].val.v
C25_Xs(i) == IF C25_Args[1] = Str("$tags") THEN getValue(input[i], "tags").v ELSE C25_Args[1].v
C25_Part(xs, from, to) == SubSeq(xs, from + 1, IF to > Len(xs) THEN Len(xs) ELSE to)
C25_Start(xs, skip) == IF skip >= 0 THEN skip ELSE IF Len(xs) + skip < 0 THEN 0 ELSE Len(xs) + skip
C25_Expected(xs) ==
  IF Len(C25_Args) = 2
  THEN (IF C25_Args[2].v >= 0 THEN C25_Part(xs, 0, C25_Args[2].v)
        ELSE C25_Part(xs, C25_Start(xs, C25_Args[2].v), Len(xs)))
  ELSE C25_Part(xs, C25_Start(xs, C25_Args[2].v), C25_Start(xs, C25_Args[2].v) + C25_Args[3].v)

\* C25: slice(xs, N) is the first N elements of xs for N >= 0 and the last
\* |N| elements (all of xs when |N| exceeds its length) for N < 0;
\* slice(xs, skip, limit) raises when limit is not positive and is otherwise
\* the elements from index skip on, counted from the end when skip is
\* negative, limit of them at most
C25_SliceTakes ==
  /\ (status = "threw" /\ Len(input) > 0) => (Len(C25_Args) = 3 /\ C25_Args[3].v <= 0)
  /\ (Len(C25_Args) = 3 /\ C25_Args[3].v <= 0 /\ Len(input) > 0) => status # "returned"
  /\ status = "returned" =>
       \A i \in DOMAIN input :
         getValue(Deref(heap, result.v[i]), "s") = Arr(C25_Expected(C25_Xs(i)))

-----------------------------------------------------------------------------
\* the operator of the $project of the run and its operands as written, and
\* whether one of them evaluates to null or undefined, or to a string
C26_Operator == pipeline[1].v[1].val.v[1].val.v[1].key
C26_Operands ==
  LET expr == pipeline[1].v[1].val.v[1].val.v[1].val
  IN  IF isArray(expr) THEN {expr.v[i] : i \in DOMAIN expr.v} ELSE {expr}
C26_SomeUnknown == Null \in C26_Operands \/ Str("$c") \in C26_Operands
C26_SomeString == Str("x") \in C26_Operands \/ Str("2") \in C26_Operands

\* C26: an arithmetic operator with an operand that is null or undefined
\* returns null, and one with an operand that is a string raises (with
\* operands of both kinds it does the one or the other)
C26_SoftNull ==
  (status # "running" /\ Len(input) > 0) =>
    /\ (C26_SomeUnknown \/ C26_SomeString) =>
          \/ /\ C26_SomeUnknown
             /\ status = "returned"
             /\ \A i \in DOMAIN input : getValue(Deref(heap, result.v[i]), "s") = Null
          \/ C26_SomeString /\ status = "threw"

-----------------------------------------------------------------------------
\* C27: a materializing call that returns leaves the cursor a result, and
\* once the cursor holds a result no call changes it or the documents:
\* skip, limit and sort leave it alone, and every later all(), count(),
\* first(), last(), hasNext() and next() returns and answers from it
C27_MaterializesOnce ==
  [][/\ (calls' = calls /\ status' = "returned") => isArray(cursorResult')
     /\ cursorResult # Bool(FALSE) =>
          /\ cursorResult' = cursorResult
          /\ heap' = heap
          /\ calls' = calls => status' = "returned"
          /\ All => result' = cursorResult
          /\ Count => result' = Num(Len(cursorResult.v))
          /\ First => result' = returnsFirst(cursorResult)
          /\ Last => result' = returnsLast(cursorResult)
          /\ HasNext => result' = Bool(Len(cursorResult.v) > position)
          /\ NextDocument => result' = returnsNext(cursorResult)]_vars

\* C27 witness: all() has returned the two documents that the cursor holds
\* after limit(1) was called on the materialized cursor
C27_Witness ==
  /\ status = "returned"
  /\ isArray(cursorResult)
  /\ result = cursorResult
  /\ Len(cursorResult.v) = 2
  /\ \E i \in DOMAIN calls : calls[i].fetched /\ calls[i].op = "$limit"

-----------------------------------------------------------------------------
\* C28: the position of the cursor, the number of documents that next() has
\* returned, only grows, by one with every next() that returns a document,
\* and never exceeds count(); a next() that returns, returns the element of
\* all() at the position while the position is below count() and null from
\* then on, and hasNext() is true exactly when the position is below count()
C28_Iteration ==
  [][/\ position' \in {position, position + 1}
     /\ position' > 0 => (isArray(cursorResult') /\ position' <= Len(cursorResult'.v))
     /\ position' = position + 1 <=>
          (NextDocument /\ status' = "returned" /\ position < Len(cursorResult'.v))
     /\ (NextDocument /\ status' = "returned") =>
          result' = IF position < Len(cursorResult'.v) THEN cursorResult'.v[position + 1]
                    ELSE Null
     /\ (HasNext /\ status' = "returned") =>
          result' = Bool(position < Len(cursorResult'.v))]_vars

\* C28 witness: next() has returned null on a cursor of two documents, both
\* of which it had returned before
C28_Witness ==
  /\ status = "returned"
  /\ result = Null
  /\ isArray(cursorResult)
  /\ Len(cursorResult.v) = 2
  /\ position = 2

-----------------------------------------------------------------------------
\* the value of f in document i, and TRUE when $group has put the documents
\* i and j into one group
C29_Value(i) == getValue(input[i], "f")
C29_OneGroup(i, j) ==
  \E g \in DOMAIN result.v :
    \A id \in {Num(i), Num(j)} :
      \E n \in DOMAIN getValue(Deref(heap, result.v[g]), "ids").v :
        getValue(Deref(heap, result.v[g]), "ids").v[n] = id

\* C29: values that isEqual holds equal have one hashcode, documents that
\* differ in the order of their keys among them, and $group puts the
\* documents that hold them into one group
C29_HashcodeOfEqual ==
  status = "returned" =>
    \A i, j \in DOMAIN input :
      isEqual(C29_Value(i), C29_Value(j)) =>
        /\ hashcode(C29_Value(i)) = hashcode(C29_Value(j))
        /\ C29_OneGroup(i, j)

-----------------------------------------------------------------------------
\* the expression of the $project of the run; TRUE when it sets the identity
\* field to 0 or false, and when it does not name the identity field and
\* excludes no field
C30_Expr == pipeline[1].v[1].val
C30_IdExcluded ==
  has(C30_Expr, settings.key) /\ getValue(C30_Expr, settings.key) \in {Num(0), Bool(FALSE)}
C30_InclusionsOnly ==
  /\ ~has(C30_Expr, settings.key)
  /\ \A n \in DOMAIN C30_Expr.v : C30_Expr.v[n].val \notin {Num(0), Bool(FALSE)}

\* C30: a $project that sets the identity field to 0 or false returns
\* documents without the identity field, whatever its other keys; one that
\* does not name the identity field and excludes nothing returns each
\* document with the identity field of the input document
C30_IdentityField ==
  status = "returned" =>
    /\ C30_IdExcluded =>
         \A i \in DOMAIN result.v : ~has(Deref(heap, result.v[i]), settings.key)
    /\ C30_InclusionsOnly =>
         \A i \in DOMAIN result.v :
           /\ has(Deref(heap, result.v[i]), settings.key)
           /\ getValue(Deref(heap, result.v[i]), settings.key) = getValue(input[i], settings.key)
====
